---------------------------- MODULE Spec2Model ----------------------------
(***************************************************************************)
(* BM6 battery monitor clients.                                            *)
(*                                                                         *)
(* Spec      the three history clients (bm6_complete_history.py,           *)
(*           bm6_conservative_history.py, bm6_robust_history.py): the      *)
(*           connection, the command transport with its notification       *)
(*           buffer, and the robust client's find_and_connect.             *)
(* SpecLive  the live read of bm6-battery-monitor.py: retry_with_backoff   *)
(*           around _get_bm6_data_once.                                    *)
(* SpecHist  the history retrievals: the readings the clients build from  *)
(*           the responses of their commands, the final passes and the     *)
(*           summary.                                                      *)
(* SpecCodec the functions of the clients and probers: the voltage scan,   *)
(*           the live decoder, the cipher, the command builders, the bulk  *)
(*           scoring and the timestamp parser, each applied once to an     *)
(*           argument.                                                     *)
(*                                                                         *)
(* One step of the model is the code that runs between two suspension      *)
(* points (await) of the asyncio coroutine; the notification callback and  *)
(* the radio link act between such steps.                                  *)
(***************************************************************************)
EXTENDS Integers, Sequences, FiniteSets, TLC

\* ---------------------------------------------------------------- bounds
\* commands one history retrieval sends
MaxCmds == 2
\* notifications the device sends in reply to one command
MaxReplies == 2
\* largest max_attempts the caller passes to find_and_connect
MaxAttemptsArg == 3
\* largest MAX_RETRIES the live read is configured with
MaxRetriesArg == 4
\* 0.1 s polls of the live read's wait loop (int(DATA_TIMEOUT * 10))
MaxTimeout == 2
\* device notifications that go unheard by one live-read attempt
MaxLost == 1
\* calls of disconnect() on one client
MaxDisc == 2
\* responses the device delivers during one history retrieval
MaxBlocks == 2
\* largest max_records passed to get_all_history_records
MaxRecordsArg == 2
\* commands of the parameter sweep of phase 1 (the code sends 2 * 64)
MaxProbes == 2
\* positions of the sequential phase (the code: min(50, ...))
MaxPositions == 1
\* read commands tried at each position (the code: '01' .. '05')
ReadCmdCount == 2
\* bytes of a response the voltage scan walks over (the device sends 16)
MaxScanBytes == 3
\* notifications of an unexpected length one client receives
MaxBad == 1
\* the longest block given to parse_timestamp_from_data, in bytes
MaxStampBytes == 4

\* ------------------------------------------------------- program constants
\* find_and_connect(self, max_attempts: int = 3)
DefaultMaxAttempts == 3
\* RETRY_DELAY_BASE = 1.0
RETRY_DELAY_BASE == 1
\* "Waiting 5 seconds before retry..."
NotFoundWait == 5
\* wait_time = (attempt + 1) * 3
BackoffStep == 3
\* timedelta(hours=...): seconds in one hour
HourSecs == 3600
\* estimated_interval_minutes = 15, in seconds
IntervalSecs == 900
\* total_seconds() < 1800  # 30 minutes
ConservativeWindow == 1800
\* total_seconds() < 300
CompleteWindow == 300
\* total_seconds() < 3600
BasicWindow == 3600

VARIABLES
    \* ---- history clients
    kind,        \* which client class: "complete", "conservative", "robust"
    pc,          \* where the client's coroutine is suspended
    cmd,         \* number of commands the client has started
    responses,   \* self.responses
    ret,         \* what the last command call gave its caller
    retKind,     \* "none", "list" (a list was returned), "error" (it raised)
    retCmd,      \* the command ret belongs to
    failure,     \* why the last command failed: "none", "write", "reconnect"
    winlog,      \* notifications the callback took in since the last buffer reset
    sent,        \* notifications the device has sent, per command
    received,    \* commands whose write the device acknowledged
    cbRaised,    \* exceptions that left _notification_handler
    link,        \* self.client.is_connected
    subscribed,  \* a notification callback is registered on self.client
    open,        \* commands written whose buffer has not been read out yet
    clientObj,   \* self.client is not None
    connected,   \* self.connected (robust client)
    fcAttempt,   \* find_and_connect: attempt
    fcMax,       \* find_and_connect: max_attempts
    fcCaller,    \* find_and_connect: "main" or "send" (a reconnect)
    scans,       \* scans of the running find_and_connect call
    connects,    \* connects of the running find_and_connect call
    fcWaits,     \* sleeps of the running find_and_connect call, each with
                 \* the attempt it followed and the branch that slept
    fcResult,    \* "none", "true", "false": what find_and_connect last returned
    fcStages,    \* what the running pass of find_and_connect has achieved
    writes,      \* calls of write_gatt_char, per command
    discCalls,   \* calls of disconnect()
    discOps,     \* link operations the running or last disconnect() asked for
    discRaised,  \* a call of disconnect() ended with an exception
    discSnap,    \* the link state when the running or last disconnect() began
    \* ---- live read
    maxRetries,  \* MAX_RETRIES
    addrValid,   \* is_valid_mac_address(address)
    rpc,         \* where retry_with_backoff / _get_bm6_data_once is suspended
    attempt,     \* retry_with_backoff: attempt
    calls,       \* invocations of func
    excs,        \* the exception each failed invocation raised
    lastExc,     \* last_exception
    delays,      \* the asyncio.sleep delays of retry_with_backoff
    outcome,     \* "running", "returned", "raised"
    raised,      \* the exception retry_with_backoff raised
    result,      \* the value retry_with_backoff returned
    lconns,      \* connections opened (BleakClient.__aenter__)
    lwrites,     \* command writes
    lwritten,    \* the command was written on the current connection
    lsub,        \* the callback is registered on the current connection
    llink,       \* the current connection is open
    bm6data,     \* bm6_data
    ticks,       \* timeout_counter
    lost,        \* device notifications sent while no callback was registered
    trace,       \* link operations of the live read, in order
    \* ---- history retrieval
    hclient,         \* whose retrieval runs: "conservative", "complete", "basic", "robust"
    hpc,             \* the command whose result the retrieval is waiting for
    hstep,           \* index of that command in its loop
    hpos,            \* complete, sequential phase: i
    hrange,          \* complete, sequential phase: the length of range(...)
    max_records,     \* complete: max_records
    cmd03n,          \* basic: len(cmd03_responses)
    hresp,           \* the responses notified in the current window
    all_readings,    \* all_readings (basic: history_readings)
    unique_readings, \* the list the retrieval returned
    hlog,            \* every response delivered so far, with its command
    summary,         \* what get_history_summary returned
    \* ---- pure functions
    cop,             \* the function applied
    cin,             \* its argument
    cout             \* what it returned

sessVars == << kind, pc, cmd, responses, ret, retKind, retCmd, failure, winlog,
               sent, received, cbRaised, link, subscribed, open, clientObj, connected,
               fcAttempt, fcMax, fcCaller, scans, connects, fcWaits, fcResult,
               fcStages, writes, discCalls, discOps, discRaised, discSnap >>

liveVars == << maxRetries, addrValid, rpc, attempt, calls, excs, lastExc, delays,
               outcome, raised, result, lconns, lwrites, lwritten, lsub, llink,
               bm6data, ticks, lost, trace >>

histVars == << hclient, hpc, hstep, hpos, hrange, max_records, cmd03n, hresp,
               all_readings, unique_readings, hlog, summary >>

\* the block codec, the command builders and the bulk scoring (pure functions)
codecVars == << cop, cin, cout >>

vars == << sessVars, liveVars, histVars, codecVars >>

Kinds == {"complete", "conservative", "robust"}

\* the buffer, and the writes that follow its resets
bufVars == << responses, winlog, writes >>
retVars == << ret, retKind, retCmd, failure >>
devVars == << sent, received, cbRaised >>
linkVars == << link, subscribed, clientObj, connected >>
fcVars == << fcAttempt, fcMax, fcCaller, scans, connects, fcWaits, fcResult,
            fcStages >>
discVars == << discCalls, discOps, discRaised, discSnap >>

\* last_exception = None
NoExc == [kind |-> "None", at |-> 0]
\* raise None
RaiseNone == [kind |-> "TypeError", at |-> 0]
\* bm6_data = {"voltage": None, "temperature": None, "soc": None}
\* (0 stands for None, any other value for the block it was decoded from,
\* conn for the connection the values came from)
NoData == [voltage |-> 0, temperature |-> 0, soc |-> 0, conn |-> 0]

\* ------------------------------------------------------------ live read: idle
\* The live read's variables while a history client runs.
LiveOff ==
    /\ maxRetries = 0 /\ rpc = "off" /\ attempt = 0
    /\ calls = 0 /\ excs = << >> /\ lastExc = NoExc /\ delays = << >>
    /\ outcome = "running" /\ raised = NoExc /\ result = NoData
    /\ lconns = 0 /\ lwrites = 0 /\ lwritten = FALSE /\ lsub = FALSE
    /\ llink = FALSE /\ bm6data = NoData /\ ticks = 0 /\ lost = 0
    /\ trace = << >>

\* get_history_summary has not returned
NoSummary == [total_records |-> 0, error |-> FALSE, current_data |-> "absent",
              stats |-> << >>]

\* ---------------------------------------------------- history retrieval: idle
\* The retrieval's variables while no retrieval is looked at.
HistOff ==
    /\ hclient = "none" /\ hpc = "off" /\ hstep = 0 /\ hpos = 0 /\ hrange = 0
    /\ max_records = 0 /\ cmd03n = 0 /\ hresp = << >>
    /\ all_readings = << >> /\ unique_readings = << >> /\ hlog = << >>
    /\ summary = NoSummary

\* ------------------------------------------------------ pure functions: idle
\* No function is applied while a client runs.
CodecOff == cop = "off" /\ cin = << >> /\ cout = << >>

\* ------------------------------------------------------------------ cipher
\* bytes.hex(): two hex digits per byte, most significant first
RECURSIVE Hex(_)
Hex(bytes) ==
    IF bytes = << >> THEN << >>
    ELSE << Head(bytes) \div 16, Head(bytes) % 16 >> \o Hex(Tail(bytes))

\* BM6_KEY = bytearray([108, 101, 97, 103, ...]) (BM6_ENCRYPTION_KEY)
BM6_KEY == << 108, 101, 97, 103, 101, 110, 100, 255,
              254, 48, 49, 48, 48, 48, 48, 57 >>

\* 16 * b'\0'
ZeroIV == [i \in 1..16 |-> 0]

\* a ^ b on bytes
RECURSIVE XorByte(_, _)
XorByte(a, b) ==
    IF a = 0 /\ b = 0 THEN 0
    ELSE ((a + b) % 2) + (2 * XorByte(a \div 2, b \div 2))

\* The block cipher of the Crypto.Cipher.AES library under one key. The
\* library is not part of the repository: it is represented by a keyed
\* permutation of the 16-byte blocks (every byte moved one place on and
\* shifted by the key byte of its new place) and AesDecryptBlock by the
\* inverse of that permutation, which is all the clients rely on.
AesEncryptBlock(key, block) ==
    [i \in 1..16 |-> (block[(i % 16) + 1] + key[i]) % 256]

AesDecryptBlock(key, block) ==
    [i \in 1..16 |-> LET j == ((i + 14) % 16) + 1
                     IN  (block[j] + 256 - key[j]) % 256]

\* cipher = AES.new(BM6_KEY, AES.MODE_CBC, 16 * b'\0')
\* return cipher.encrypt(plaintext)
\* CBC on one block: the block is xor-ed with the IV, then enciphered; data
\* whose length is not a multiple of 16 raises ValueError. The clients
\* pass at most one block.
encrypt_bm6(plaintext) ==
    IF Len(plaintext) # 16 THEN [raised |-> TRUE, data |-> << >>]
    ELSE [raised |-> FALSE,
          data |-> AesEncryptBlock(BM6_KEY,
                      [i \in 1..16 |-> XorByte(plaintext[i], ZeroIV[i])])]

\* cipher = AES.new(BM6_KEY, AES.MODE_CBC, 16 * b'\0')
\* return cipher.decrypt(crypted).hex()
decrypt_with_other_iv(crypted) ==
    [raised |-> FALSE,
     data |-> Hex([i \in 1..16 |->
                     XorByte(AesDecryptBlock(BM6_KEY, crypted)[i], 1)])]
decrypt_bm6(crypted) ==
    IF Len(crypted) # 16 THEN [raised |-> TRUE, data |-> << >>]
    ELSE LET block == AesDecryptBlock(BM6_KEY, crypted)
         IN  [raised |-> FALSE,
              data |-> Hex([i \in 1..16 |-> XorByte(block[i], ZeroIV[i])])]


\* a notification payload of 15 bytes
BadPayload == [i \in 1..15 |-> 0]

\* ------------------------------------------------------------ history clients
\* __init__ of the three clients: no client object, an empty buffer,
\* connected = False.
SessInit ==
    /\ kind \in Kinds
    /\ pc = "init" /\ cmd = 0
    /\ responses = << >> /\ winlog = << >>
    /\ ret = << >> /\ retKind = "none" /\ retCmd = 0 /\ failure = "none"
    /\ sent = [c \in 1..MaxCmds |-> 0] /\ received = {} /\ cbRaised = 0
    /\ link = FALSE /\ subscribed = FALSE /\ clientObj = FALSE
    /\ connected = FALSE /\ open = {}
    /\ fcAttempt = 0 /\ fcMax = 0 /\ fcCaller = "none"
    /\ scans = 0 /\ connects = 0 /\ fcWaits = << >> /\ fcResult = "none"
    /\ fcStages = << >> /\ writes = [c \in 1..MaxCmds |-> 0]
    /\ discCalls = 0 /\ discOps = 0 /\ discRaised = FALSE
    /\ discSnap = << FALSE, FALSE, FALSE, FALSE >>

\* BM6...HistoryClient(args.address): the address is whatever string the
\* command line gave; addrValid tells whether it matches MAC_ADDRESS_PATTERN.
Init == SessInit /\ LiveOff /\ HistOff /\ CodecOff /\ addrValid \in BOOLEAN

\* connect() of the complete and the conservative client:
\* BleakClient(...), await client.connect()
ConnectOk ==
    /\ pc = "init" /\ kind # "robust"
    /\ clientObj' = TRUE /\ link' = TRUE /\ pc' = "notify"
    /\ UNCHANGED << kind, cmd, bufVars, retVars, devVars, subscribed, connected,
                    open, fcVars, discVars, liveVars, histVars, codecVars >>

ConnectFail ==
    /\ pc = "init" /\ kind # "robust"
    /\ clientObj' = TRUE /\ pc' = "done"
    /\ UNCHANGED << kind, cmd, bufVars, retVars, devVars, link, subscribed,
                    connected, open, fcVars, discVars, liveVars, histVars, codecVars >>

\* await self.client.start_notify("FFF4", self._notification_handler)
StartNotifyOk ==
    /\ pc = "notify" /\ link
    /\ subscribed' = TRUE /\ pc' = "idle"
    /\ UNCHANGED << kind, cmd, bufVars, retVars, devVars, link, clientObj,
                    connected, open, fcVars, discVars, liveVars, histVars, codecVars >>

StartNotifyFail ==
    /\ pc = "notify"
    /\ pc' = "done"
    /\ UNCHANGED << kind, cmd, bufVars, retVars, devVars, linkVars, open, fcVars,
                    discVars, liveVars, histVars, codecVars >>

\* The radio link is lost; the subscription goes with it.
LinkDrop ==
    /\ link
    /\ link' = FALSE /\ subscribed' = FALSE
    /\ UNCHANGED << kind, pc, cmd, bufVars, retVars, devVars, clientObj,
                    connected, open, fcVars, discVars, liveVars, histVars, codecVars >>

\* self.responses.clear()
KeptBuffer == responses
ClearedBuffer == << >>

\* The caller of _send_command / _send_command_safe awaits each call: it
\* starts a command only when the previous call has returned.
CallerReadyNoAwait == pc \in {"idle", "sleep"}
CallerReady == pc = "idle"

\* return self.responses.copy(): the list the caller holds is an object of
\* its own; returned is what it held, buffer is self.responses after a
\* later append or clear()
SharedWithBuffer(returned, buffer) == buffer
Snapshot(returned, buffer) == returned

\* responses.clear(), encrypt, then the suspension at await write_gatt_char
ClearAndWrite ==
    /\ responses' = ClearedBuffer /\ winlog' = << >>
    /\ ret' = Snapshot(ret, responses')
    /\ open' = open \cup {cmd'}
    /\ writes' = [writes EXCEPT ![cmd'] = @ + 1]
    /\ pc' = "write"

\* for attempt in range(max_attempts)
LoopRunsOffByOne(a, max) == a <= max
LoopRuns(a, max) == a < max

\* The call of find_and_connect: the first pass of its for loop, suspended at
\* the scan. max_attempts >= 1 in every call the clients make.
FcEnter(caller, max) ==
    /\ pc' = "fc_scan"
    /\ fcCaller' = caller /\ fcMax' = max /\ fcAttempt' = 0
    /\ scans' = 0 /\ connects' = 0 /\ fcWaits' = << >> /\ fcResult' = "none"
    /\ fcStages' = << >>

\* main(): client.find_and_connect(max_attempts=...)
FcBegin ==
    /\ pc = "init" /\ kind = "robust"
    /\ \E m \in 1..MaxAttemptsArg : FcEnter("main", m)
    /\ UNCHANGED << kind, cmd, bufVars, retVars, devVars, linkVars, open,
                    discVars, liveVars, histVars, codecVars >>

\* if not self.connected or not self.client or not self.client.is_connected
NeedsReconnect == kind = "robust" /\ (~connected \/ ~clientObj \/ ~link)

\* A call of _send_command (complete) or _send_command_safe (conservative,
\* robust) up to its first suspension: the robust client reconnects when
\* the link is down, every client else resets the buffer and writes.
SendCommand ==
    /\ CallerReady /\ cmd < MaxCmds
    /\ cmd' = cmd + 1
    /\ retKind' = "none" /\ failure' = "none" /\ UNCHANGED retCmd
    /\ IF NeedsReconnect
          THEN /\ FcEnter("send", DefaultMaxAttempts)
               /\ UNCHANGED << bufVars, open, ret >>
          ELSE /\ ClearAndWrite
               /\ UNCHANGED fcVars
    /\ UNCHANGED << kind, devVars, linkVars, discVars, liveVars, histVars, codecVars >>

\* await self.client.write_gatt_char("FFF3", encrypted, response=True)
\* returned: the device has the command; the await of asyncio.sleep follows.
WriteAck ==
    /\ pc = "write" /\ link
    /\ received' = received \cup {cmd}
    /\ pc' = "sleep"
    /\ UNCHANGED << kind, cmd, bufVars, retVars, sent, cbRaised, linkVars, open,
                    fcVars, discVars, liveVars, histVars, codecVars >>

\* write_gatt_char raised. _send_command lets the exception out;
\* _send_command_safe catches it, prints, and returns [].
WriteFail ==
    /\ pc = "write"
    /\ failure' = "write" /\ retCmd' = cmd
    /\ IF kind = "complete"
          THEN retKind' = "error" /\ ret' = ret
          ELSE retKind' = "list" /\ ret' = << >>
    /\ open' = open \ {cmd}
    /\ pc' = "idle"
    /\ UNCHANGED << kind, cmd, bufVars, devVars, linkVars, fcVars, discVars, liveVars, histVars, codecVars >>

\* asyncio.sleep(wait_time) is over: return self.responses.copy()
WindowEnd ==
    /\ pc = "sleep"
    /\ ret' = responses /\ retKind' = "list" /\ retCmd' = cmd
    /\ open' = open \ {cmd}
    /\ pc' = "idle"
    /\ UNCHANGED << kind, cmd, bufVars, failure, devVars, linkVars, fcVars,
                    discVars, liveVars, histVars, codecVars >>

\* The device notifies a reply to command c (replies leave in command
\* order) and _notification_handler appends it to self.responses.
Notify(c) ==
    /\ link /\ subscribed
    /\ c \in received /\ sent[c] < MaxReplies
    /\ \A d \in received : d > c => sent[d] = 0
    /\ LET n == [cmd |-> c, seq |-> sent[c] + 1]
       IN  /\ responses' = Append(responses, n)
           /\ winlog' = Append(winlog, n)
    /\ ret' = Snapshot(ret, responses')
    /\ sent' = [sent EXCEPT ![c] = @ + 1]
    /\ UNCHANGED << kind, pc, cmd, retKind, retCmd, failure, received, cbRaised, writes, linkVars, open,
                    fcVars, discVars, liveVars, histVars, codecVars >>

\* The device notifies, in reply to command c, a payload whose length is
\* not a multiple of 16. decrypted = decrypt_bm6(data) is the handler's
\* second statement and stands in no try block: cipher.decrypt raises
\* ValueError, the handler ends there and the exception leaves it.
NotifyBad(c) ==
    /\ link /\ subscribed
    /\ c \in received /\ sent[c] < MaxReplies
    /\ \A d \in received : d > c => sent[d] = 0
    /\ cbRaised < MaxBad
    /\ decrypt_bm6(BadPayload).raised
    /\ cbRaised' = cbRaised + 1
    /\ sent' = [sent EXCEPT ![c] = @ + 1]
    /\ UNCHANGED << kind, pc, cmd, bufVars, retVars, received, linkVars, open,
                    fcVars, discVars, liveVars, histVars, codecVars >>

\* ------------------------------------------ robust client: find_and_connect
\* return False
FcReturnFalse ==
    /\ fcResult' = "false" /\ UNCHANGED fcStages
    /\ IF fcCaller = "send"
          THEN /\ pc' = "idle"
               /\ ret' = << >> /\ retKind' = "list" /\ retCmd' = cmd
               /\ failure' = "reconnect"
          ELSE /\ pc' = "done"
               /\ UNCHANGED retVars

\* The end of one pass of the for loop: the next pass, or the return False
\* that follows the loop.
FcNextAttempt ==
    IF LoopRuns(fcAttempt + 1, fcMax)
       THEN /\ pc' = "fc_scan" /\ fcAttempt' = fcAttempt + 1
            /\ fcStages' = << >>
            /\ UNCHANGED << fcResult, retVars >>
       ELSE /\ FcReturnFalse
            /\ UNCHANGED fcAttempt

\* An exception in the try block: the handler runs once the failing await
\* has raised.
FcRaise ==
    /\ pc' = "fc_except"
    /\ UNCHANGED << fcAttempt, fcResult, fcStages, retVars >>

\* device_found: some device of the scan has the client's address
\* (listed: the scan saw the device)
device_found_always(listed) == TRUE
device_found(listed) == listed

\* devices = await scanner.discover(timeout=10.0): found, not found, raised
FcScan ==
    /\ pc = "fc_scan"
    /\ scans' = scans + 1
    /\ \/ \E listed \in BOOLEAN :
             IF device_found(listed)
                THEN /\ pc' = "fc_connect"
                     /\ fcStages' = IF listed THEN Append(fcStages, "scan")
                                              ELSE fcStages
                     /\ UNCHANGED << fcAttempt, fcWaits, fcResult, retVars >>
                ELSE IF fcAttempt < fcMax - 1
                        THEN /\ pc' = "fc_notfound"
                             /\ fcWaits' = Append(fcWaits,
                                               [attempt |-> fcAttempt,
                                                stage |-> "scan",
                                                delay |-> NotFoundWait])
                             /\ UNCHANGED << fcAttempt, fcResult, fcStages,
                                             retVars >>
                        ELSE /\ FcReturnFalse
                             /\ UNCHANGED << fcAttempt, fcWaits >>
       \/ /\ FcRaise
          /\ UNCHANGED fcWaits
    /\ UNCHANGED << kind, cmd, bufVars, devVars, linkVars, open, fcMax,
                    fcCaller, connects, discVars, liveVars, histVars, codecVars >>

\* await asyncio.sleep(5); continue
FcNotFoundWait ==
    /\ pc = "fc_notfound"
    /\ FcNextAttempt
    /\ UNCHANGED << kind, cmd, bufVars, devVars, linkVars, open, fcMax,
                    fcCaller, scans, connects, fcWaits, discVars, liveVars, histVars, codecVars >>

\* self.client = BleakClient(...); await self.client.connect()
FcConnect ==
    /\ pc = "fc_connect"
    /\ connects' = connects + 1
    /\ clientObj' = TRUE /\ subscribed' = FALSE
    /\ \/ /\ link' = TRUE /\ pc' = "fc_check"
          /\ fcStages' = Append(fcStages, "connect")
       \/ link' = FALSE /\ pc' = "fc_except" /\ UNCHANGED fcStages
    /\ UNCHANGED << kind, cmd, bufVars, retVars, devVars, connected, open,
                    fcAttempt, fcMax, fcCaller, scans, fcWaits, fcResult,
                    discVars, liveVars, histVars, codecVars >>

\* if self.client.is_connected: ... await self.client.get_services()
\* with its outcomes (FFF0 there, FFF0 missing, raised);
\* else: print("Connection failed") and the next pass
FcServices ==
    /\ pc = "fc_check"
    /\ IF link
          THEN \/ /\ pc' = "fc_notify"
                  /\ fcStages' = Append(fcStages, "services")
                  /\ UNCHANGED << fcAttempt, fcResult, retVars >>
               \/ /\ pc' = "fc_nosvc"
                  /\ UNCHANGED << fcAttempt, fcResult, fcStages, retVars >>
               \/ FcRaise
          ELSE FcNextAttempt
    /\ UNCHANGED << kind, cmd, bufVars, devVars, linkVars, open, fcMax,
                    fcCaller, scans, connects, fcWaits, discVars, liveVars, histVars, codecVars >>

\* FFF0 missing: await self.client.disconnect(), then the next pass
FcNoService ==
    /\ pc = "fc_nosvc"
    /\ \/ /\ link' = FALSE /\ subscribed' = FALSE
          /\ FcNextAttempt
       \/ /\ FcRaise
          /\ UNCHANGED << link, subscribed >>
    /\ UNCHANGED << kind, cmd, bufVars, devVars, clientObj, connected, open,
                    fcMax, fcCaller, scans, connects, fcWaits, discVars, liveVars, histVars, codecVars >>

\* await self.client.start_notify(...); self.connected = True; return True.
\* A reconnect returns into _send_command_safe, which resets the buffer
\* and writes without suspending in between.
FcNotifyOk ==
    /\ pc = "fc_notify" /\ link
    /\ subscribed' = TRUE /\ connected' = TRUE
    /\ fcResult' = "true" /\ fcStages' = Append(fcStages, "notify")
    /\ cmd' = cmd
    /\ IF fcCaller = "send"
          THEN ClearAndWrite
          ELSE pc' = "idle" /\ UNCHANGED << bufVars, open, ret >>
    /\ UNCHANGED << kind, retKind, retCmd, failure, devVars, link, clientObj, fcAttempt, fcMax,
                    fcCaller, scans, connects, fcWaits, discVars, liveVars, histVars, codecVars >>

FcNotifyFail ==
    /\ pc = "fc_notify"
    /\ FcRaise
    /\ UNCHANGED << kind, cmd, bufVars, devVars, linkVars, open, fcMax,
                    fcCaller, scans, connects, fcWaits, discVars, liveVars, histVars, codecVars >>

\* except Exception: disconnect the client if there is one (errors
\* swallowed), self.client = None, then sleep (attempt + 1) * 3 unless this
\* was the last attempt
FcHandler ==
    /\ pc = "fc_except"
    /\ clientObj' = FALSE /\ link' = FALSE /\ subscribed' = FALSE
    /\ IF fcAttempt < fcMax - 1
          THEN /\ pc' = "fc_backoff"
               /\ fcWaits' = Append(fcWaits,
                      [attempt |-> fcAttempt, stage |-> "except",
                       delay |-> (fcAttempt + 1) * BackoffStep])
               /\ UNCHANGED << fcAttempt, fcResult, fcStages, retVars >>
          ELSE /\ FcNextAttempt
               /\ UNCHANGED fcWaits
    /\ UNCHANGED << kind, cmd, bufVars, devVars, connected, open, fcMax,
                    fcCaller, scans, connects, discVars, liveVars, histVars, codecVars >>

\* await asyncio.sleep(wait_time) is over: the next pass
FcBackoffDone ==
    /\ pc = "fc_backoff"
    /\ FcNextAttempt
    /\ UNCHANGED << kind, cmd, bufVars, devVars, linkVars, open, fcMax,
                    fcCaller, scans, connects, fcWaits, discVars, liveVars, histVars, codecVars >>

\* ----------------------------------------------------------------- disconnect
\* disconnect() left by an exception (complete, conservative), or through
\* `except: pass` and self.connected = False (robust)
DiscFailed ==
    /\ pc' = "closed"
    /\ IF kind = "robust"
          THEN connected' = FALSE /\ UNCHANGED discRaised
          ELSE discRaised' = TRUE /\ UNCHANGED connected

\* disconnect() returns; the robust client sets self.connected = False
DiscReturn ==
    /\ pc' = "closed"
    /\ connected' = (IF kind = "robust" THEN FALSE ELSE connected)

\* A call of disconnect(), from main()'s finally block or from a caller
\* that never connected:
\* if self.client and self.client.is_connected: ... up to the first await
Disconnect ==
    /\ pc \in {"init", "idle", "done", "closed"}
    /\ discCalls < MaxDisc
    /\ discCalls' = discCalls + 1 /\ discOps' = 0
    /\ discSnap' = linkVars
    /\ IF clientObj /\ link
          THEN pc' = "disc_stop" /\ UNCHANGED connected
          ELSE DiscReturn
    /\ UNCHANGED << kind, cmd, bufVars, retVars, devVars, link, subscribed,
                    clientObj, open, fcVars, discRaised, liveVars, histVars, codecVars >>

\* await self.client.stop_notify("FFF4"): done, or raised (always so when
\* the link went down in the meantime)
DiscStopNotify ==
    /\ pc = "disc_stop"
    /\ discOps' = discOps + 1
    /\ \/ /\ link
          /\ subscribed' = FALSE /\ pc' = "disc_close"
          /\ UNCHANGED << connected, discRaised >>
       \/ /\ DiscFailed
          /\ UNCHANGED subscribed
    /\ UNCHANGED << kind, cmd, bufVars, retVars, devVars, link, clientObj,
                    open, fcVars, discCalls, discSnap, liveVars, histVars, codecVars >>

\* await self.client.disconnect(): done, or raised
DiscClose ==
    /\ pc = "disc_close"
    /\ discOps' = discOps + 1
    /\ \/ /\ link' = FALSE /\ subscribed' = FALSE
          /\ DiscReturn
          /\ UNCHANGED discRaised
       \/ /\ DiscFailed
          /\ UNCHANGED << link, subscribed >>
    /\ UNCHANGED << kind, cmd, bufVars, retVars, devVars, clientObj, open,
                    fcVars, discCalls, discSnap, liveVars, histVars, codecVars >>


FcStep ==
    \/ FcScan \/ FcNotFoundWait \/ FcConnect \/ FcServices \/ FcNoService
    \/ FcNotifyOk \/ FcNotifyFail \/ FcHandler \/ FcBackoffDone

Next ==
    \/ ConnectOk \/ ConnectFail \/ StartNotifyOk \/ StartNotifyFail
    \/ LinkDrop
    \/ SendCommand \/ WriteAck \/ WriteFail \/ WindowEnd
    \/ \E c \in 1..MaxCmds : Notify(c)
    \/ \E c \in 1..MaxCmds : NotifyBad(c)
    \/ FcBegin \/ FcStep
    \/ Disconnect \/ DiscStopNotify \/ DiscClose

Spec == Init /\ [][Next]_vars

\* The event loop resumes find_and_connect whenever the await it is
\* suspended at completes; scan and connect carry timeouts.
FairSpec == Spec /\ WF_vars(FcStep)

\* ================================================================ live read
\* The history clients' variables while the live read runs.
SessOff ==
    /\ kind = "none" /\ pc = "off" /\ cmd = 0
    /\ responses = << >> /\ winlog = << >>
    /\ ret = << >> /\ retKind = "none" /\ retCmd = 0 /\ failure = "none"
    /\ sent = [c \in 1..MaxCmds |-> 0] /\ received = {} /\ cbRaised = 0
    /\ link = FALSE /\ subscribed = FALSE /\ clientObj = FALSE
    /\ connected = FALSE /\ open = {}
    /\ fcAttempt = 0 /\ fcMax = 0 /\ fcCaller = "none"
    /\ scans = 0 /\ connects = 0 /\ fcWaits = << >> /\ fcResult = "none"
    /\ fcStages = << >> /\ writes = [c \in 1..MaxCmds |-> 0]
    /\ discCalls = 0 /\ discOps = 0 /\ discRaised = FALSE
    /\ discSnap = << FALSE, FALSE, FALSE, FALSE >>

\* get_bm6_data(address, format): retry_with_backoff(_get_bm6_data_once,
\* address) with MAX_RETRIES as configured (--retries), at the head of its
\* for loop
LiveInit ==
    /\ maxRetries \in -1..MaxRetriesArg
    /\ addrValid \in BOOLEAN
    /\ rpc = "loop" /\ attempt = 0 /\ calls = 0
    /\ excs = << >> /\ lastExc = NoExc /\ delays = << >>
    /\ outcome = "running" /\ raised = NoExc /\ result = NoData
    /\ lconns = 0 /\ lwrites = 0 /\ lwritten = FALSE /\ lsub = FALSE
    /\ llink = FALSE /\ bm6data = NoData /\ ticks = 0 /\ lost = 0
    /\ trace = << >>

InitLive == SessOff /\ LiveInit /\ HistOff /\ CodecOff

\* for attempt in range(MAX_RETRIES)
RetryLoopRuns(a, n) == a < n

\* delay = RETRY_DELAY_BASE * (2 ** attempt)
DelayLinear(a) == RETRY_DELAY_BASE * 2 * a
Delay(a) == RETRY_DELAY_BASE * (2 ^ a)

\* last_exception = e
KeepFirstException(old, e) == IF old = NoExc THEN e ELSE old
RememberException(old, e) == e

\* except Exception as e, for the exception of kind k that the running
\* invocation raised: remember it, then sleep the backoff delay unless this
\* was the last attempt, in which case the loop moves on.
OnFail(k) ==
    LET e == [kind |-> k, at |-> calls']
    IN  /\ lastExc' = RememberException(lastExc, e)
        /\ excs' = Append(excs, e)
        /\ IF attempt < maxRetries - 1
              THEN /\ delays' = Append(delays, Delay(attempt))
                   /\ rpc' = "backoff"
                   /\ attempt' = attempt
              ELSE /\ delays' = delays
                   /\ rpc' = "loop"
                   /\ attempt' = attempt + 1
        /\ UNCHANGED << outcome, raised, result >>

\* An exception inside "async with BleakClient": __aexit__ closes the
\* connection, the except clause of _get_bm6_data_once logs and re-raises.
LiveRaise(k) ==
    /\ llink' = FALSE /\ lsub' = FALSE
    /\ trace' = IF llink THEN Append(trace, "disconnect") ELSE trace
    /\ calls' = calls
    /\ OnFail(k)

\* The head of the for loop. A pass calls func: _get_bm6_data_once
\* validates the address (ValueError) and suspends at the connect. After
\* the last pass: raise last_exception.
RetryCall ==
    /\ rpc = "loop"
    /\ IF RetryLoopRuns(attempt, maxRetries)
          THEN /\ calls' = calls + 1
               /\ bm6data' = NoData /\ ticks' = 0 /\ lwritten' = FALSE
               /\ lost' = 0
               /\ IF addrValid
                     THEN /\ rpc' = "connect"
                          /\ UNCHANGED << attempt, excs, lastExc, delays,
                                          outcome, raised, result >>
                     ELSE OnFail("ValueError")
          ELSE /\ outcome' = "raised"
               /\ raised' = IF lastExc = NoExc THEN RaiseNone ELSE lastExc
               /\ rpc' = "done"
               /\ UNCHANGED << attempt, calls, excs, lastExc, delays, result,
                               bm6data, ticks, lwritten, lost >>
    /\ UNCHANGED << maxRetries, addrValid, lconns, lwrites, lsub, llink, trace,
                    sessVars, histVars, codecVars >>

\* await asyncio.sleep(delay) is over: the next pass
BackoffDone ==
    /\ rpc = "backoff"
    /\ attempt' = attempt + 1 /\ rpc' = "loop"
    /\ UNCHANGED << maxRetries, addrValid, calls, excs, lastExc, delays,
                    outcome, raised, result, lconns, lwrites, lwritten, lsub,
                    llink, bm6data, ticks, lost, trace, sessVars, histVars, codecVars >>

\* async with BleakClient(address, timeout=30) as client
LConnect ==
    /\ rpc = "connect"
    /\ lconns' = lconns + 1
    /\ \/ /\ llink' = TRUE /\ lsub' = FALSE
          /\ trace' = Append(trace, "connect")
          /\ rpc' = "write"
          /\ UNCHANGED << attempt, calls, excs, lastExc, delays, outcome,
                          raised, result >>
       \/ LiveRaise("ConnectError")
    /\ UNCHANGED << maxRetries, addrValid, lwrites, lwritten, bm6data, ticks,
                    lost, sessVars, histVars, codecVars >>

\* await client.write_gatt_char(GATT_WRITE_CHAR, command_data, response=True)
LWrite ==
    /\ rpc = "write"
    /\ \/ /\ llink
          /\ lwrites' = lwrites + 1 /\ lwritten' = TRUE
          /\ trace' = Append(trace, "write")
          /\ rpc' = "subscribe"
          /\ UNCHANGED << attempt, calls, excs, lastExc, delays, outcome,
                          raised, result, llink, lsub >>
       \/ /\ LiveRaise("WriteError")
          /\ UNCHANGED << lwrites, lwritten >>
    /\ UNCHANGED << maxRetries, addrValid, lconns, bm6data, ticks, lost,
                    sessVars, histVars, codecVars >>

\* while (voltage is None or temperature is None) and timeout_counter <
\* max_timeout
WaitGoesOn(d, t) == (d.voltage = 0 \/ d.temperature = 0) /\ t < MaxTimeout

\* The end of the wait loop: TimeoutError when timeout_counter >=
\* max_timeout, else the suspension at stop_notify.
WaitOver(t) ==
    IF t >= MaxTimeout
       THEN LiveRaise("TimeoutError")
       ELSE /\ rpc' = "stop"
            /\ UNCHANGED << attempt, calls, excs, lastExc, delays, outcome,
                            raised, result, llink, lsub, trace >>

\* await client.start_notify(GATT_NOTIFY_CHAR, notification_handler), then
\* the first test of the wait loop
LSubscribe ==
    /\ rpc = "subscribe"
    /\ \/ /\ llink
          /\ IF WaitGoesOn(bm6data, 0)
                THEN /\ lsub' = TRUE
                     /\ trace' = Append(trace, "start_notify")
                     /\ rpc' = "wait"
                     /\ UNCHANGED << attempt, calls, excs, lastExc, delays,
                                     outcome, raised, result, llink >>
                ELSE WaitOver(0)
       \/ LiveRaise("NotifyError")
    /\ UNCHANGED << maxRetries, addrValid, lconns, lwrites, lwritten, bm6data,
                    ticks, lost, sessVars, histVars, codecVars >>

\* await asyncio.sleep(0.1); timeout_counter += 1, then the loop test
LTick ==
    /\ rpc = "wait"
    /\ ticks' = ticks + 1
    /\ IF WaitGoesOn(bm6data, ticks')
          THEN UNCHANGED << rpc, attempt, calls, excs, lastExc, delays, outcome,
                            raised, result, llink, lsub, trace >>
          ELSE WaitOver(ticks')
    /\ UNCHANGED << maxRetries, addrValid, lconns, lwrites, lwritten, bm6data,
                    lost, sessVars, histVars, codecVars >>

\* The blocks the device may notify during a live read; a value of bm6_data
\* is written as the block it was decoded from.
LiveBlocks == {1, 2}

\* notification_handler after decrypt: a block with the prefix d15507 sets
\* voltage, soc and temperature in one run of the handler (no await stands
\* between the assignments); any other block changes nothing. d is
\* bm6_data, c the connection.
HandlerWithoutSoc(d, block, prefix, c) ==
    IF prefix
       THEN [d EXCEPT !.voltage = block, !.temperature = block, !.conn = c]
       ELSE d
notification_handler(d, block, prefix, c) ==
    IF prefix
       THEN [voltage |-> block, temperature |-> block, soc |-> block,
             conn |-> c]
       ELSE d

\* The device notifies a block while the callback is registered.
LNotify(block, prefix) ==
    /\ llink /\ lwritten /\ lsub
    /\ bm6data' = notification_handler(bm6data, block, prefix, lconns)
    /\ UNCHANGED << maxRetries, addrValid, rpc, attempt, calls, excs, lastExc,
                    delays, outcome, raised, result, lconns, lwrites, lwritten,
                    lsub, llink, ticks, lost, trace, sessVars, histVars, codecVars >>

\* The device answers the command while no callback is registered on the
\* connection: nobody hears the notification.
LUnheard ==
    /\ llink /\ lwritten /\ ~lsub /\ lost < MaxLost
    /\ lost' = lost + 1
    /\ UNCHANGED << maxRetries, addrValid, rpc, attempt, calls, excs, lastExc,
                    delays, outcome, raised, result, lconns, lwrites, lwritten,
                    lsub, llink, bm6data, ticks, trace, sessVars, histVars, codecVars >>

\* The radio link of the live read is lost.
LLinkDrop ==
    /\ llink /\ rpc \in {"write", "subscribe", "wait", "stop"}
    /\ llink' = FALSE /\ lsub' = FALSE
    /\ UNCHANGED << maxRetries, addrValid, rpc, attempt, calls, excs, lastExc,
                    delays, outcome, raised, result, lconns, lwrites, lwritten,
                    bm6data, ticks, lost, trace, sessVars, histVars, codecVars >>

\* await client.stop_notify(GATT_NOTIFY_CHAR)
LStop ==
    /\ rpc = "stop"
    /\ \/ /\ llink
          /\ lsub' = FALSE
          /\ trace' = Append(trace, "stop_notify")
          /\ rpc' = "exit"
          /\ UNCHANGED << attempt, calls, excs, lastExc, delays, outcome,
                          raised, result, llink >>
       \/ LiveRaise("NotifyError")
    /\ UNCHANGED << maxRetries, addrValid, lconns, lwrites, lwritten, bm6data,
                    ticks, lost, sessVars, histVars, codecVars >>

\* The end of the async with block closes the connection; return bm6_data,
\* which retry_with_backoff returns in turn.
LExitContinues ==
    /\ rpc = "exit"
    /\ llink' = FALSE
    /\ trace' = Append(trace, "disconnect")
    /\ outcome' = "returned" /\ result' = bm6data
    /\ rpc' = "backoff"
    /\ UNCHANGED << maxRetries, addrValid, attempt, calls, excs, lastExc,
                    delays, raised, lconns, lwrites, lwritten, lsub, bm6data,
                    ticks, lost, sessVars, histVars, codecVars >>
LExit ==
    /\ rpc = "exit"
    /\ llink' = FALSE
    /\ trace' = Append(trace, "disconnect")
    /\ outcome' = "returned" /\ result' = bm6data
    /\ rpc' = "done"
    /\ UNCHANGED << maxRetries, addrValid, attempt, calls, excs, lastExc,
                    delays, raised, lconns, lwrites, lwritten, lsub, bm6data,
                    ticks, lost, sessVars, histVars, codecVars >>

NextLive ==
    \/ RetryCall \/ BackoffDone
    \/ LConnect \/ LWrite \/ LSubscribe \/ LTick \/ LStop \/ LExit
    \/ \E block \in LiveBlocks, prefix \in BOOLEAN : LNotify(block, prefix)
    \/ LUnheard \/ LLinkDrop

SpecLive == InitLive /\ [][NextLive]_vars

\* ======================================================== history retrieval
\* A voltage is the 16-bit value read from a response (voltage * 100), a
\* timestamp is counted in seconds from current_time (0 is now, -3600 one
\* hour ago).
Volts == {999, 1000, 1280}

\* The values v, among the neighbours of Volts, for which the doubles
\* (v + 1) / 100.0 and v / 100.0 differ by less than 0.01
\* (10.0 - 9.99 = 0.009999999999999787); 1279 is none of them.
NarrowGap == {998, 999, 1000, 1001, 1280, 1281}

Abs(x) == IF x < 0 THEN 0 - x ELSE x

Min(a, b) == IF a < b THEN a ELSE b

\* 'confidence': 'high' if 1000 <= val16_be <= 1500 else 'medium'
Confidence(v) == IF 1000 <= v /\ v <= 1500 THEN "high" ELSE "medium"

\* abs(r.voltage - reading.voltage) < 0.01, on the doubles val / 100.0
VoltClose(a, b) ==
    \/ a = b
    \/ a + 1 = b /\ a \in NarrowGap
    \/ b + 1 = a /\ b \in NarrowGap

\* abs(reading.voltage - existing.voltage) < 0.1; no two values of Volts
\* are 0.10 V apart, where the rounding of the doubles would decide
VoltNear(a, b) == Abs(a - b) < 10

\* What extract_voltages_from_response finds in a response, in its order.
CandLists == { << 999 >>, << 1000 >>, << 1280 >>, << 1280, 999 >> }

\* A response: its voltage candidates and the time parse_timestamp_from_data
\* reads out of it by its first two rules (<< >> when they find none).
\* Only the complete client looks for a time in a response.
Blocks == [cands : CandLists, ts : {<< >>, << 0 - 1800 >>}]

\* for param in [0x01, 0x02, 0x05]
Params == << 1, 2, 5 >>

\* parse_timestamp_from_data(hex_data, record_index): the time found in the
\* data, else current_time - record_index * 15 minutes
ParseTimestamp(b, record_index) ==
    IF b.ts # << >> THEN b.ts[1] ELSE 0 - record_index * IntervalSecs

\* HistoryReading(...); obs is the place the reading took in all_readings
\* when it was appended
Reading(v, t, b, tag, idx, o) ==
    [voltage |-> v, timestamp |-> t, confidence |-> Confidence(v),
     raw_data |-> b, source_command |-> tag, record_index |-> idx, obs |-> o]

\* The duplicate test of each client: the voltages closer than 0.01 V
\* (basic: 0.1 V) and the timestamps closer than the client's window
\* (robust: the voltages alone).
SameReading(client, r, x) ==
    CASE client = "conservative" ->
            /\ VoltClose(r.voltage, x.voltage)
            /\ Abs(r.timestamp - x.timestamp) < ConservativeWindow
      [] client = "complete" ->
            /\ VoltClose(r.voltage, x.voltage)
            /\ Abs(r.timestamp - x.timestamp) < CompleteWindow
      [] client = "basic" ->
            /\ VoltNear(r.voltage, x.voltage)
            /\ Abs(r.timestamp - x.timestamp) < BasicWindow
      [] client = "robust" -> VoltClose(r.voltage, x.voltage)

\* The timestamp a loop gives to candidate i (from 1) of response r (from 1):
\*   c03   current_time - timedelta(hours=i+1), i from 0
\*   c05, cvar   current_time - timedelta(hours=len(all_readings) + i + 1)
\*   p1    parse_timestamp_from_data(data, len(all_readings))
\*   p2    parse_timestamp_from_data(data, i), i the position (arg)
\*   b03   current_time - timedelta(hours=i+1), i the response's index
\*   b05   current_time - timedelta(hours=len(cmd03_responses) + i + 1)
EstimatedTime(rule, all, b, r, i, arg) ==
    CASE rule = "c03" -> 0 - i * HourSecs
      [] rule \in {"c05", "cvar"} -> 0 - (Len(all) + i) * HourSecs
      [] rule = "p1" -> ParseTimestamp(b, Len(all))
      [] rule = "p2" -> ParseTimestamp(b, arg)
      [] rule = "b03" -> 0 - r * HourSecs
      [] rule = "b05" -> 0 - (arg + r) * HourSecs

\* The test a loop makes before it appends reading x:
\*   cvar    is_new: no reading with a voltage closer than 0.01 V
\*   p1, p2  is_duplicate against all_readings, window of 300 s
\*   the other loops append every candidate
Skipped(rule, all, x) ==
    CASE rule = "cvar" ->
            \E k \in 1..Len(all) : VoltClose(all[k].voltage, x.voltage)
      [] rule \in {"p1", "p2"} ->
            \E k \in 1..Len(all) : SameReading("complete", all[k], x)
      [] OTHER -> FALSE

\* for response in responses: for v in extract_voltages_from_response(...):
\* make the reading, append it unless the loop's test skips it. The
\* sequential phase (p2) breaks out of the candidate loop after an append.
RECURSIVE Collect(_, _, _, _, _, _, _)
Collect(all, resps, r, i, rule, arg, tag) ==
    IF r > Len(resps) THEN all
    ELSE IF i > Len(resps[r].cands)
            THEN Collect(all, resps, r + 1, 1, rule, arg, tag)
    ELSE LET b == resps[r]
             t == EstimatedTime(rule, all, b, r, i, arg)
             idx == CASE rule = "p2" -> arg
                      [] rule \in {"b03", "b05"} -> 0
                      [] OTHER -> Len(all)
             x == Reading(b.cands[i], t, b, tag, idx, Len(all))
         IN  IF Skipped(rule, all, x)
                THEN Collect(all, resps, r, i + 1, rule, arg, tag)
             ELSE IF rule = "p2"
                THEN Collect(Append(all, x), resps, r + 1, 1, rule, arg, tag)
             ELSE Collect(Append(all, x), resps, r, i + 1, rule, arg, tag)

\* list.sort(key=lambda x: x.timestamp, reverse=True): stable, so readings
\* with equal timestamps keep the order they had
RECURSIVE InsertDesc(_, _)
InsertDesc(x, s) ==
    IF s = << >> THEN << x >>
    ELSE IF Head(s).timestamp >= x.timestamp
            THEN << Head(s) >> \o InsertDesc(x, Tail(s))
    ELSE << x >> \o s

RECURSIVE InsertAsc(_, _)
InsertAsc(x, s) ==
    IF s = << >> THEN << x >>
    ELSE IF Head(s).timestamp <= x.timestamp
            THEN << Head(s) >> \o InsertAsc(x, Tail(s))
    ELSE << x >> \o s

RECURSIVE SortInto(_, _, _)
SortInto(acc, s, desc) ==
    IF s = << >> THEN acc
    ELSE SortInto(IF desc THEN InsertDesc(Head(s), acc)
                          ELSE InsertAsc(Head(s), acc), Tail(s), desc)

Reversed(s) == [k \in 1..Len(s) |-> s[Len(s) + 1 - k]]

\* the sort without reverse=True
SortAscending(s) == SortInto(<< >>, s, FALSE)
\* an ascending sort turned round: equal timestamps come out swapped
SortByReversal(s) == Reversed(SortInto(<< >>, s, FALSE))
SortDesc(s) == SortInto(<< >>, s, TRUE)

\* unique_readings = []; for reading in all_readings: append the reading
\* unless it is a duplicate of one already in unique_readings
RECURSIVE Unique(_, _, _)
Unique(acc, s, client) ==
    IF s = << >> THEN acc
    ELSE LET x == Head(s)
             dup == \E k \in 1..Len(acc) : SameReading(client, acc[k], x)
         IN  Unique(IF dup THEN acc ELSE Append(acc, x), Tail(s), client)

\* the sort-and-deduplicate pass at the end of a retrieval
FinalPass(client, all) == Unique(<< >>, SortDesc(all), client)


HClients == {"conservative", "complete", "basic", "robust"}

\* The start of a retrieval: an empty all_readings and the first command.
HistInit ==
    /\ hclient \in HClients
    /\ hpc = CASE hclient = "conservative" -> "c03"
               [] hclient = "complete" -> "p1"
               [] hclient = "basic" -> "b03"
               [] hclient = "robust" -> "r03"
    /\ hstep = 1 /\ hpos = 0 /\ hrange = 0 /\ cmd03n = 0
    /\ max_records \in (IF hclient = "complete" THEN 1..MaxRecordsArg ELSE {0})
    /\ hresp = << >> /\ all_readings = << >> /\ unique_readings = << >>
    /\ hlog = << >> /\ summary = NoSummary

\* _notification_handler during the window of the command in progress
HNotify(b) ==
    /\ hpc \notin {"off", "done", "raised", "summarized", "summary_raised"}
    /\ Len(hlog) < MaxBlocks
    /\ hclient # "complete" => b.ts = << >>
    /\ hresp' = Append(hresp, b)
    /\ hlog' = Append(hlog, [at |-> hpc, step |-> hstep, block |-> b])
    /\ UNCHANGED << hclient, hpc, hstep, hpos, hrange, max_records, cmd03n,
                    all_readings, unique_readings, sessVars, liveVars, codecVars, summary >>

\* all_readings.sort(...), the final deduplication, return unique_readings
Finish(all) ==
    /\ all_readings' = SortDesc(all)
    /\ unique_readings' = FinalPass(hclient, all)
    /\ hpc' = "done"

\* ---- conservative: get_history_records
\* command 03 returned (an empty list when it failed)
Cmd03Done ==
    /\ hpc = "c03"
    /\ all_readings' = Collect(all_readings, hresp, 1, 1, "c03", 0,
                               [cmd |-> "03", arg |-> 0])
    /\ hpc' = "c05" /\ hresp' = << >>
    /\ UNCHANGED << hclient, hstep, hpos, hrange, max_records, cmd03n,
                    unique_readings, hlog, sessVars, liveVars, codecVars, summary >>

\* command 05 returned
Cmd05Done ==
    /\ hpc = "c05"
    /\ all_readings' = Collect(all_readings, hresp, 1, 1, "c05", 0,
                               [cmd |-> "05", arg |-> 0])
    /\ hpc' = "cvar" /\ hstep' = 1 /\ hresp' = << >>
    /\ UNCHANGED << hclient, hpos, hrange, max_records, cmd03n,
                    unique_readings, hlog, sessVars, liveVars, codecVars, summary >>

\* a parameter variation of command 03 returned; after the last one the
\* final pass
VariationDone ==
    /\ hpc = "cvar"
    /\ LET all == Collect(all_readings, hresp, 1, 1, "cvar", 0,
                          [cmd |-> "03_param", arg |-> Params[hstep]])
       IN  IF hstep < Len(Params)
              THEN /\ all_readings' = all /\ hstep' = hstep + 1
                   /\ UNCHANGED << hpc, unique_readings >>
              ELSE /\ Finish(all)
                   /\ UNCHANGED hstep
    /\ hresp' = << >>
    /\ UNCHANGED << hclient, hpos, hrange, max_records, cmd03n, hlog,
                    sessVars, liveVars, codecVars, summary >>

\* ---- complete: get_all_history_records
\* The start of phase 2: range(min(50, max_records - len(all_readings))),
\* whose first pass sends the counter command; an empty range leaves the
\* final pass.
SequentialPhase(all) ==
    LET n == Min(MaxPositions, max_records - Len(all))
    IN  IF n > 0
           THEN /\ hpc' = "counter" /\ hpos' = 0 /\ hrange' = n
                /\ all_readings' = all
                /\ UNCHANGED unique_readings
           ELSE /\ Finish(all)
                /\ UNCHANGED << hpos, hrange >>

\* The end of one pass of the parameter sweep.
NextProbe(all, mayBreak) ==
    IF (mayBreak /\ Len(all) >= max_records) \/ hstep = MaxProbes
       THEN /\ SequentialPhase(all)
            /\ hstep' = 1
       ELSE /\ all_readings' = all /\ hstep' = hstep + 1
            /\ UNCHANGED << hpc, hpos, hrange, unique_readings >>

\* a command of the sweep returned: its readings are taken in, then
\* `if len(all_readings) >= max_records: break`
Phase1Done ==
    /\ hpc = "p1"
    /\ NextProbe(Collect(all_readings, hresp, 1, 1, "p1", 0,
                         [cmd |-> "sweep", arg |-> hstep]), TRUE)
    /\ hresp' = << >>
    /\ UNCHANGED << hclient, max_records, cmd03n, hlog, sessVars, liveVars, codecVars, summary >>

\* a command of the sweep raised: except Exception: continue
Phase1Failed ==
    /\ hpc = "p1" /\ hresp = << >>
    /\ NextProbe(all_readings, FALSE)
    /\ UNCHANGED << hclient, max_records, cmd03n, hresp, hlog, sessVars,
                    liveVars, codecVars, summary >>

\* await self._send_command(counter_cmd, 0.5) returned; its responses are
\* dropped
CounterDone ==
    /\ hpc = "counter"
    /\ hpc' = "read" /\ hstep' = 1 /\ hresp' = << >>
    /\ UNCHANGED << hclient, hpos, hrange, max_records, cmd03n, all_readings,
                    unique_readings, hlog, sessVars, liveVars, codecVars, summary >>

\* the counter command raised: no try block is around it, the exception
\* leaves get_all_history_records
CounterFailed ==
    /\ hpc = "counter" /\ hresp = << >>
    /\ hpc' = "raised"
    /\ UNCHANGED << hclient, hstep, hpos, hrange, max_records, cmd03n, hresp,
                    all_readings, unique_readings, hlog, sessVars, liveVars, codecVars, summary >>

\* The end of one pass of the read-command loop, and of the position loop
\* around it.
NextRead(all, mayBreak) ==
    IF mayBreak /\ Len(all) >= max_records
       THEN /\ Finish(all)
            /\ UNCHANGED << hstep, hpos >>
    ELSE IF hstep < ReadCmdCount
       THEN /\ all_readings' = all /\ hstep' = hstep + 1
            /\ UNCHANGED << hpc, hpos, unique_readings >>
    ELSE IF Len(all) < max_records /\ hpos + 1 < hrange
       THEN /\ all_readings' = all /\ hpc' = "counter" /\ hpos' = hpos + 1
            /\ UNCHANGED << hstep, unique_readings >>
    ELSE /\ Finish(all)
         /\ UNCHANGED << hstep, hpos >>

\* a read command of the sequential phase returned
ReadDone ==
    /\ hpc = "read"
    /\ NextRead(Collect(all_readings, hresp, 1, 1, "p2", hpos,
                        [cmd |-> "seq", arg |-> hstep]), TRUE)
    /\ hresp' = << >>
    /\ UNCHANGED << hclient, hrange, max_records, cmd03n, hlog, sessVars,
                    liveVars, codecVars, summary >>

\* a read command raised: except: continue
ReadFailed ==
    /\ hpc = "read" /\ hresp = << >>
    /\ NextRead(all_readings, FALSE)
    /\ UNCHANGED << hclient, hrange, max_records, cmd03n, hresp, hlog,
                    sessVars, liveVars, codecVars, summary >>

\* ---- basic: BM6HistoryClient.get_history
Basic03Done ==
    /\ hpc = "b03"
    /\ all_readings' = Collect(all_readings, hresp, 1, 1, "b03", 0,
                               [cmd |-> "03", arg |-> 0])
    /\ cmd03n' = Len(hresp)
    /\ hpc' = "b05" /\ hresp' = << >>
    /\ UNCHANGED << hclient, hstep, hpos, hrange, max_records,
                    unique_readings, hlog, sessVars, liveVars, codecVars, summary >>

Basic05Done ==
    /\ hpc = "b05"
    /\ Finish(Collect(all_readings, hresp, 1, 1, "b05", cmd03n,
                      [cmd |-> "05", arg |-> 0]))
    /\ hresp' = << >>
    /\ UNCHANGED << hclient, hstep, hpos, hrange, max_records, cmd03n, hlog,
                    sessVars, liveVars, codecVars, summary >>

\* _send_command raised: get_history has no try block
BasicFailed ==
    /\ hpc \in {"b03", "b05"} /\ hresp = << >>
    /\ hpc' = "raised"
    /\ UNCHANGED << hclient, hstep, hpos, hrange, max_records, cmd03n, hresp,
                    all_readings, unique_readings, hlog, sessVars, liveVars, codecVars, summary >>

\* ---- robust: get_history_records
\* command 03 returned (an empty list when it or the reconnect failed)
Robust03Done ==
    /\ hpc = "r03"
    /\ all_readings' = Collect(all_readings, hresp, 1, 1, "c03", 0,
                               [cmd |-> "03", arg |-> 0])
    /\ hpc' = "r05" /\ hresp' = << >>
    /\ UNCHANGED << hclient, hstep, hpos, hrange, max_records, cmd03n,
                    unique_readings, hlog, sessVars, liveVars, codecVars, summary >>

\* command 05 returned: its new voltages are taken in, then the final pass
Robust05Done ==
    /\ hpc = "r05"
    /\ Finish(Collect(all_readings, hresp, 1, 1, "cvar", 0,
                      [cmd |-> "05", arg |-> 0]))
    /\ hresp' = << >>
    /\ UNCHANGED << hclient, hstep, hpos, hrange, max_records, cmd03n, hlog,
                    sessVars, liveVars, codecVars, summary >>

\* ---- get_history_summary
RECURSIVE MinOf(_)
MinOf(s) == IF Len(s) = 1 THEN s[1] ELSE Min(s[1], MinOf(Tail(s)))

RECURSIVE MaxOf(_)
MaxOf(s) ==
    IF Len(s) = 1 THEN s[1]
    ELSE LET m == MaxOf(Tail(s)) IN IF s[1] > m THEN s[1] ELSE m

RECURSIVE SumOf(_)
SumOf(s) == IF s = << >> THEN 0 ELSE s[1] + SumOf(Tail(s))

\* 'voltage_statistics': min, max, average (as sum over count), range
VoltageStatistics(records) ==
    LET voltages == [k \in 1..Len(records) |-> records[k].voltage]
    IN  [min |-> MinOf(voltages), max |-> MaxOf(voltages),
         sum |-> SumOf(voltages), count |-> Len(voltages),
         range |-> MaxOf(voltages) - MinOf(voltages)]

\* if not records:
NoEmptyTest(records) == FALSE
NotRecords(records) == records = << >>

\* What get_current_data gave the summary: the complete client's summary
\* has no current data, the others hold None or the decoded reading.
CurrentData ==
    IF hclient = "complete" THEN {"absent"} ELSE {"None", "reading"}

\* get_history_summary once `records = await ...` has returned: the
\* zero-record summary for an empty list, else the statistics; min() of an
\* empty list raises ValueError.
Summarize ==
    /\ hpc = "done" /\ hclient # "basic"
    /\ \E cd \in CurrentData :
          IF NotRecords(unique_readings)
             THEN /\ summary' = [total_records |-> 0, error |-> TRUE,
                                 current_data |-> cd, stats |-> << >>]
                  /\ hpc' = "summarized"
          ELSE IF unique_readings = << >>
             THEN /\ hpc' = "summary_raised"
                  /\ UNCHANGED summary
          ELSE /\ summary' =
                     [total_records |-> Len(unique_readings), error |-> FALSE,
                      current_data |-> cd,
                      stats |-> << VoltageStatistics(unique_readings) >>]
               /\ hpc' = "summarized"
    /\ UNCHANGED << hclient, hstep, hpos, hrange, max_records, cmd03n, hresp,
                    all_readings, unique_readings, hlog, sessVars, liveVars, codecVars >>


NextHist ==
    \/ \E b \in Blocks : HNotify(b)
    \/ Cmd03Done \/ Cmd05Done \/ VariationDone
    \/ Phase1Done \/ Phase1Failed
    \/ CounterDone \/ CounterFailed \/ ReadDone \/ ReadFailed
    \/ Basic03Done \/ Basic05Done \/ BasicFailed
    \/ Robust03Done \/ Robust05Done
    \/ Summarize


InitHist == SessOff /\ LiveOff /\ addrValid = TRUE /\ HistInit /\ CodecOff

SpecHist == InitHist /\ [][NextHist]_vars

\* ============================================================ pure functions
\* The block parsers, the cipher, the command builders and the bulk scoring
\* are functions of their arguments: SpecCodec draws an argument, applies
\* the function once and keeps what it returned.

\* int(s, 16) of a non-empty string of hex digits
RECURSIVE IntHex(_)
IntHex(s) ==
    IF s = << >> THEN 0
    ELSE 16 * IntHex(SubSeq(s, 1, Len(s) - 1)) + s[Len(s)]

\* s[a:b] for 0 <= a <= b
Slice(s, a, b) == SubSeq(s, a + 1, Min(b, Len(s)))

\* if 600 <= val16_be <= 2000:  # 6.0V to 20.0V range
InRangeAbove(v) == 600 < v /\ v <= 2000
InRange(v) == 600 <= v /\ v <= 2000

\* the dict appended for one interpretation of the window at i; voltage is
\* kept in hundredths of a volt (val16 / 100.0);
\* 'high' if 1000 <= val16_be <= 1500 else 'medium'
Candidate(hex_data, i, v, endian) ==
    [voltage |-> v, position |-> i, raw_bytes |-> Slice(hex_data, i, i + 4),
     endian |-> endian,
     confidence |-> IF 1000 <= v /\ v <= 1500 THEN "high" ELSE "medium"]

\* for i in range(0, len(hex_data) - 3, 2): the big-endian test, and in the
\* complete client (both = TRUE) the little-endian test after it
RECURSIVE ScanFrom(_, _, _, _)
ScanFrom(hex_data, i, both, voltages) ==
    IF i >= Len(hex_data) - 3 THEN voltages
    ELSE LET val16_be == IntHex(Slice(hex_data, i, i + 4))
             val16_le == IntHex(Slice(hex_data, i + 2, i + 4)
                                \o Slice(hex_data, i, i + 2))
             be == IF InRange(val16_be)
                      THEN << Candidate(hex_data, i, val16_be, "big") >>
                      ELSE << >>
             le == IF both /\ i + 4 <= Len(hex_data) /\ InRange(val16_le)
                      THEN << Candidate(hex_data, i, val16_le, "little") >>
                      ELSE << >>
         IN  ScanFrom(hex_data, i + 2, both, voltages \o be \o le)

\* conservative: the first candidate of every round(voltage, 2)
RECURSIVE UniqueByVoltage(_, _)
UniqueByVoltage(unique_voltages, voltages) ==
    IF voltages = << >> THEN unique_voltages
    ELSE LET v == Head(voltages)
             seen == \E j \in 1..Len(unique_voltages) :
                        unique_voltages[j].voltage = v.voltage
         IN  UniqueByVoltage(IF seen THEN unique_voltages
                                     ELSE Append(unique_voltages, v),
                             Tail(voltages))

\* voltages.sort(key=lambda x: (x['confidence'] == 'high', x['position'])):
\* False < True, and the sort is stable, so x goes behind every element
\* whose key is not above its own
RECURSIVE InsertByKey(_, _)
InsertByKey(sorted, x) ==
    IF sorted = << >> THEN << x >>
    ELSE LET y == Head(sorted)
             kx == IF x.confidence = "high" THEN 1 ELSE 0
             ky == IF y.confidence = "high" THEN 1 ELSE 0
         IN  IF kx < ky \/ (kx = ky /\ x.position < y.position)
                THEN << x >> \o sorted
                ELSE << y >> \o InsertByKey(Tail(sorted), x)

RECURSIVE SortByKey(_, _)
SortByKey(sorted, voltages) ==
    IF voltages = << >> THEN sorted
    ELSE SortByKey(InsertByKey(sorted, Head(voltages)), Tail(voltages))

\* complete: the first candidate of every position, in sorted order
RECURSIVE UniqueByPosition(_, _)
UniqueByPosition(unique_voltages, voltages) ==
    IF voltages = << >> THEN unique_voltages
    ELSE LET v == Head(voltages)
             seen == \E j \in 1..Len(unique_voltages) :
                        unique_voltages[j].position = v.position
         IN  UniqueByPosition(IF seen THEN unique_voltages
                                      ELSE Append(unique_voltages, v),
                              Tail(voltages))

\* extract_voltages_from_response of the conservative client: the list the
\* scan built and the list returned
ExtractConservative(hex_data) ==
    LET voltages == ScanFrom(hex_data, 0, FALSE, << >>)
    IN  [voltages |-> voltages,
         unique_voltages |-> UniqueByVoltage(<< >>, voltages)]

\* extract_voltages_from_response of the complete client
ExtractComplete(hex_data) ==
    LET voltages == ScanFrom(hex_data, 0, TRUE, << >>)
    IN  [voltages |-> voltages,
         unique_voltages |-> UniqueByPosition(<< >>, SortByKey(<< >>, voltages))]

\* The bytes of the scanned responses: those of the 16-bit values around the
\* limits 600, 1000, 1500 and 2000 (0x0257 0x0258 0x03e7 0x03e8 0x05db
\* 0x05dc 0x05dd 0x07d0 0x07d1) and 0x04 0x03, whose two byte orders both
\* fall in range.
ScanInputs ==
    LET bytes == {2, 3, 4, 5, 7, 87, 88, 208, 209, 219, 220, 221, 231, 232}
    IN  UNION {[1..m -> bytes] : m \in 0..MaxScanBytes}

\* BM6_MESSAGE_PREFIX = "d15507"
BM6_MESSAGE_PREFIX == << 13, 1, 5, 5, 0, 7 >>

\* message[6:8] == "01"
NeverNegative(message) == FALSE
TempNegative(message) == Slice(message, 6, 8) = << 0, 1 >>

\* int(message[8:10], 16)
MagnitudeSecondByte(message) == IntHex(Slice(message, 10, 12))
Magnitude(message) == IntHex(Slice(message, 8, 10))

\* notification_handler of the live read, from the decrypted message on (and
\* the same offsets in get_current_data of the history clients): what
\* bm6_data holds afterwards; voltage in hundredths of a volt,
\* parsed = FALSE when the prefix test fails and bm6_data stays as it was
DecodeLive(message) ==
    IF Slice(message, 0, 6) = BM6_MESSAGE_PREFIX
       THEN [parsed |-> TRUE,
             voltage |-> IntHex(Slice(message, 15, 18)),
             soc |-> IntHex(Slice(message, 12, 14)),
             temperature |-> IF TempNegative(message)
                                THEN 0 - Magnitude(message)
                                ELSE Magnitude(message)]
       ELSE [parsed |-> FALSE, voltage |-> 0, soc |-> 0, temperature |-> 0]

\* The decrypted 16-byte blocks handed to the live decoder: d1 55, the
\* opcode, the temperature flag, the byte after it, the next byte, the
\* state-of-charge byte, the two bytes holding the voltage digits, five
\* zero bytes and the last two bytes.
LiveInputs ==
    {<< 209, 85, op, flag, mag, b5, soc, v[1], v[2], 0, 0, 0, 0, 0, t[1], t[2] >> :
        op \in {3, 7}, flag \in {0, 1, 2}, mag \in {5, 12, 100},
        b5 \in {0, 12}, soc \in {0, 100}, v \in {<< 0, 0 >>, << 5, 20 >>},
        t \in {<< 0, 0 >>, << 14, 100 >>}}


\* f"{n:0<w>x}": the hex digits of n, zero-padded to at least w digits
RECURSIVE FormatHex(_, _)
FormatHex(n, w) ==
    IF n < 16 THEN [i \in 1..(w - 1) |-> 0] \o << n >>
    ELSE FormatHex(n \div 16, w - 1) \o << n % 16 >>

\* bytearray.fromhex(command_hex); ValueError for an odd number of digits
RECURSIVE FromHex(_)
FromHex(command_hex) ==
    IF command_hex = << >> THEN [raised |-> FALSE, data |-> << >>]
    ELSE IF Len(command_hex) = 1 THEN [raised |-> TRUE, data |-> << >>]
    ELSE LET rest == FromHex(Tail(Tail(command_hex)))
             byte == 16 * command_hex[1] + command_hex[2]
         IN  [raised |-> rest.raised,
              data |-> IF rest.raised THEN << >> ELSE << byte >> \o rest.data]

\* The f-strings that build the parameterised commands, with the zeros of
\* each literal counted from the source:
\*   complete, phase 1:  f"d155{cmd}00{param:02x}" + 24 zeros   (single)
\*                       f"d155{cmd}00{param:04x}" + 20 zeros   (range, offset)
\*   comprehensive search: f"d155{cmd:02x}00{param_hex}" with param_hex
\*                       f"{i:04x}" + 22 zeros   (Record Index, Hours Ago)
\*                       f"{i:08x}" + 20 zeros   (Date Pattern)
\*                       f"{s:02x}{c:02x}" + 24 zeros   (Range Pattern)
\*   targeted:           f"d155{cmd:02x}00{start:02x}{count:02x}" + 18 zeros
\*                       f"d155{cmd:02x}00{param:04x}" + 20 zeros  (<= 0xFFFF)
\*                       f"d155{cmd:02x}00{param:08x}" + 18 zeros  (else)
\*   targeted, phase 3:  f"{cmd_prefix}{start_idx:02x}{chunk_size:02x}"
\*                       + 16 zeros, cmd_prefix being "d155" and the opcode
BuildCommand(strategy, opcode, p) ==
    LET zeros(n) == [i \in 1..n |-> 0]
        head == << 13, 1, 5, 5 >> \o FormatHex(opcode, 2) \o << 0, 0 >>
    IN  CASE strategy = "complete_single" ->
                head \o FormatHex(p[1], 2) \o zeros(24)
          [] strategy \in {"complete_range", "complete_offset"} ->
                head \o FormatHex(p[1], 4) \o zeros(20)
          [] strategy \in {"search_index", "search_hours"} ->
                head \o FormatHex(p[1], 4) \o zeros(22)
          [] strategy = "search_date" ->
                head \o FormatHex(p[1], 8) \o zeros(20)
          [] strategy = "search_range" ->
                head \o FormatHex(p[1], 2) \o FormatHex(p[2], 2) \o zeros(24)
          [] strategy = "targeted_range" ->
                head \o FormatHex(p[1], 2) \o FormatHex(p[2], 2) \o zeros(18)
          [] strategy = "targeted_value" ->
                IF p[1] <= 65535
                   THEN head \o FormatHex(p[1], 4) \o zeros(20)
                   ELSE head \o FormatHex(p[1], 8) \o zeros(18)
          [] strategy = "targeted_bulk" ->
                << 13, 1, 5, 5 >> \o FormatHex(opcode, 2)
                \o FormatHex(p[1], 2) \o FormatHex(p[2], 2) \o zeros(16)

\* send_command / _send_command up to the write: command_bytes =
\* bytearray.fromhex(command_hex); encrypted = encrypt_bm6(command_bytes);
\* the write is reached only when neither raised
Written(command_hex) ==
    LET command_bytes == FromHex(command_hex)
    IN  ~command_bytes.raised /\ ~encrypt_bm6(command_bytes.data).raised

\* for chunk_size in [10, 20, 50, 100]: for start_idx in [0, 1]: the
\* variants << start_idx, chunk_size >> in the order of the loops
BulkVariants ==
    << << 0, 10 >>, << 1, 10 >>, << 0, 20 >>, << 1, 20 >>,
       << 0, 50 >>, << 1, 50 >>, << 0, 100 >>, << 1, 100 >> >>

\* Phase 3 for one bulk command, from variant k on. device[k] tells what
\* the device would notify in reply to variant k (the number of responses
\* and the voltage and timestamp candidates in them); send_command returns
\* it when the command was written and [] when it raised before the write.
\* best is [score, result], result being << >> for None.
RECURSIVE BulkBest(_, _, _, _)
BulkBest(opcode, device, k, best) ==
    IF k > Len(BulkVariants) THEN best
    ELSE LET command == BuildCommand("targeted_bulk", opcode, BulkVariants[k])
             got == IF Written(command)
                       THEN device[k]
                       ELSE [responses |-> 0, voltages |-> 0, timestamps |-> 0]
             score == got.voltages * 2 + got.timestamps * 3 + got.responses
         IN  BulkBest(opcode, device, k + 1,
                      IF got.responses > 0 /\ score > best.score
                         THEN [score |-> score,
                               result |-> << [responses |-> got.responses,
                                              voltages |-> got.voltages,
                                              timestamps |-> got.timestamps,
                                              variant |-> k] >>]
                         ELSE best)

\* What the device would reply to the variants of one bulk command.
BulkInputs ==
    LET answers == {[responses |-> 0, voltages |-> 0, timestamps |-> 0],
                    [responses |-> 1, voltages |-> 0, timestamps |-> 0],
                    [responses |-> 1, voltages |-> 1, timestamps |-> 0]}
    IN  {[opcode |-> 6, device |-> d] : d \in [1..Len(BulkVariants) -> answers]}

\* The parameter values each strategy walks through, and the opcodes.
BuildInputs ==
    LET one(S) == {<< x >> : x \in S}
        params(strategy) ==
          CASE strategy = "complete_single" -> one(0..49)
            [] strategy = "complete_range" -> one({0, 1, 16, 32, 80, 256, 512})
            [] strategy = "complete_offset" -> one({1, 6, 12, 24, 48, 72, 168})
            [] strategy = "search_index" -> one({0, 5, 10, 15})
            [] strategy = "search_hours" -> one({1, 6, 12, 24, 48, 72})
            [] strategy = "search_date" -> one(19000..19003)
            [] strategy = "search_range" -> {0, 1, 10} \X {1, 5, 10, 50}
            [] strategy = "targeted_range" ->
                  {<< 0, 10 >>, << 10, 10 >>, << 20, 10 >>, << 0, 50 >>,
                   << 50, 50 >>}
            [] strategy = "targeted_bulk" -> {0, 1} \X {10, 20, 50, 100}
            [] strategy = "targeted_value" ->
                  one({10 * i : i \in 0..9} \cup {15 * i : i \in 1..19}
                      \cup 1..7 \cup {1, 5, 10, 20, 50, 100})
    IN  UNION {{[strategy |-> s, cmd |-> c, param |-> p] : p \in params(s)} :
               s \in {"complete_single", "complete_range", "complete_offset",
                      "search_index", "search_hours", "search_date",
                      "search_range", "targeted_range", "targeted_value",
                      "targeted_bulk"},
               c \in {3, 5}}


\* 1600000000 <= timestamp <= int(time.time()) + 86400 for the 32-bit value
\* of eight hex digits. Python's integers are unbounded; a value of 2^31 or
\* more is above every clock reading before 2038 and is rejected before
\* it is computed.
InEpochRangeNever(digits, now) == FALSE
InEpochRange(digits, now) ==
    /\ digits[1] < 8
    /\ 1600000000 <= IntHex(digits) /\ IntHex(digits) <= now + 86400

\* Strategy 1, for i in range(0, len(hex_data) - 7, 2): the big-endian
\* value, then the little-endian one (struct.unpack('<I', ...)); << >> when
\* the loop ends without a return
RECURSIVE EpochFrom(_, _, _)
EpochFrom(hex_data, i, now) ==
    IF i >= Len(hex_data) - 7 THEN << >>
    ELSE LET be == Slice(hex_data, i, i + 8)
             le == Slice(hex_data, i + 6, i + 8) \o Slice(hex_data, i + 4, i + 6)
                   \o Slice(hex_data, i + 2, i + 4) \o Slice(hex_data, i, i + 2)
         IN  IF InEpochRange(be, now) THEN << IntHex(be) >>
             ELSE IF i + 8 <= Len(hex_data) /\ InEpochRange(le, now)
                     THEN << IntHex(le) >>
             ELSE EpochFrom(hex_data, i + 2, now)

\* Strategy 2, for i in range(0, len(hex_data) - 3, 2): offset_val < 8760
RECURSIVE OffsetFrom(_, _)
OffsetFrom(hex_data, i) ==
    IF i >= Len(hex_data) - 3 THEN << >>
    ELSE LET offset_val == IntHex(Slice(hex_data, i, i + 4))
         IN  IF offset_val < 8760 THEN << offset_val >>
             ELSE OffsetFrom(hex_data, i + 2)

\* parse_timestamp_from_data(hex_data, record_index), in seconds since the
\* epoch; now is the reading of the clock (datetime.now(), time.time())
parse_timestamp_from_data(hex_data, record_index, now) ==
    LET epoch == EpochFrom(hex_data, 0, now)
        offset == OffsetFrom(hex_data, 0)
    IN  IF epoch # << >> THEN epoch[1]
        ELSE IF offset # << >> THEN now - offset[1] * HourSecs
        ELSE now - record_index * IntervalSecs

\* The blocks given to parse_timestamp_from_data: bytes of 0x5f5e1000 (the
\* lower limit 1600000000), of 0x2238 (8760), 0x7f (a value above the
\* clock) and 0xff (a value of 2^31 or more); the record index; the clock
\* (2026-11-02 00:00:00 UTC)
StampInputs ==
    LET bytes == {0, 16, 34, 56, 94, 95, 127, 255}
    IN  [bytes : UNION {[1..m -> bytes] : m \in 0..MaxStampBytes},
         record_index : {0, 2}, now : {1793577600}]

\* ------------------------------------------------------- SpecCodec: the calls
\* The function called and its argument.
CodecInit ==
    /\ \/ cop \in {"extract_conservative", "extract_complete"}
          /\ \E x \in ScanInputs : cin = << x >>
       \/ cop \in {"decode_live", "round_trip"}
          /\ \E x \in LiveInputs : cin = << x >>
       \/ cop = "build_command"
          /\ \E x \in BuildInputs : cin = << x >>
       \/ cop = "bulk"
          /\ \E x \in BulkInputs : cin = << x >>
       \/ cop = "parse_timestamp"
          /\ \E x \in StampInputs : cin = << x >>
    /\ cout = << >>

\* voltages = extract_voltages_from_response(response['decrypted'])
CallExtractConservative ==
    /\ cop = "extract_conservative" /\ cout = << >>
    /\ cout' = << ExtractConservative(Hex(cin[1])) >>
    /\ UNCHANGED << cop, cin, sessVars, liveVars, histVars >>

CallExtractComplete ==
    /\ cop = "extract_complete" /\ cout = << >>
    /\ cout' = << ExtractComplete(Hex(cin[1])) >>
    /\ UNCHANGED << cop, cin, sessVars, liveVars, histVars >>

\* message = decrypt(data) ... bm6_data[...] = ...
CallDecodeLive ==
    /\ cop = "decode_live" /\ cout = << >>
    /\ cout' = << DecodeLive(Hex(cin[1])) >>
    /\ UNCHANGED << cop, cin, sessVars, liveVars, histVars >>

\* decrypt_bm6(encrypt_bm6(block)): each call makes its own cipher object
CallRoundTrip ==
    /\ cop = "round_trip" /\ cout = << >>
    /\ LET encrypted == encrypt_bm6(cin[1])
           decrypted == decrypt_bm6(encrypted.data)
       IN  cout' = << [crypted |-> encrypted.data,
                       decrypted |-> decrypted.data,
                       raised |-> encrypted.raised \/ decrypted.raised] >>
    /\ UNCHANGED << cop, cin, sessVars, liveVars, histVars >>

\* command = f"d155..."; responses = await self.send_command(command, ...)
CallBuildCommand ==
    /\ cop = "build_command" /\ cout = << >>
    /\ LET command == BuildCommand(cin[1].strategy, cin[1].cmd, cin[1].param)
       IN  cout' = << [command |-> command, written |-> Written(command)] >>
    /\ UNCHANGED << cop, cin, sessVars, liveVars, histVars >>

\* best_result = None; best_score = 0; the two loops; then the report
CallBulk ==
    /\ cop = "bulk" /\ cout = << >>
    /\ cout' = << BulkBest(cin[1].opcode, cin[1].device, 1,
                           [score |-> 0, result |-> << >>]) >>
    /\ UNCHANGED << cop, cin, sessVars, liveVars, histVars >>

\* timestamp = parse_timestamp_from_data(response['decrypted'], i)
CallParseTimestamp ==
    /\ cop = "parse_timestamp" /\ cout = << >>
    /\ cout' = << parse_timestamp_from_data(Hex(cin[1].bytes),
                                            cin[1].record_index, cin[1].now) >>
    /\ UNCHANGED << cop, cin, sessVars, liveVars, histVars >>

NextCodec ==
    \/ CallExtractConservative \/ CallExtractComplete
    \/ CallDecodeLive \/ CallRoundTrip \/ CallBuildCommand \/ CallBulk
    \/ CallParseTimestamp

InitCodec == SessOff /\ LiveOff /\ addrValid = TRUE /\ HistOff /\ CodecInit

SpecCodec == InitCodec /\ [][NextCodec]_vars


\* =================================================================== claims
InFc == pc \in {"fc_scan", "fc_notfound", "fc_connect", "fc_check", "fc_nosvc",
                "fc_notify", "fc_except", "fc_backoff"}

\* C1: on one client at most one command is pending: no command is written
\* while the collection window of an earlier command is still open, and the
\* command whose write or window is in progress is the only pending one.
C1_OnePending ==
    /\ Cardinality(open) <= 1
    /\ pc \in {"write", "sleep"} => open = {cmd}

\* the window of a second command is open after the first one was read out
C1_Witness == pc = "sleep" /\ cmd = 2 /\ open = {2} /\ retCmd = 1

\* C2: every response in the list a command call returns was notified in
\* reply to that command; a late reply to an earlier command never shows up
\* in a later command's list.
C2_OnlyOwnReplies ==
    retKind = "list" => \A i \in 1..Len(ret) : ret[i].cmd = retCmd

\* C3: when a command's collection window ends, the call returns a list
\* holding exactly the notifications taken in since that command's buffer
\* reset, in arrival order (the empty list when there were none), and
\* reports no failure.
C3_WindowContents ==
    [][(pc = "sleep" /\ pc' # "sleep")
         => (retKind' = "list" /\ ret' = winlog /\ failure' = "none")]_vars

\* a second command returned its own two notifications after the first
\* command's notifications had been in the buffer
C3_Witness ==
    /\ pc = "idle" /\ retKind = "list" /\ retCmd = 2 /\ failure = "none"
    /\ Len(ret) = 2 /\ ret[1].seq = 1 /\ ret[2].seq = 2
    /\ sent[1] > 0

\* C8: a command whose write failed, or whose reconnect failed, ends with an
\* error its caller sees, never with a returned list.
C8_FailureIsError == failure # "none" => retKind = "error"

\* C9: when find_and_connect has returned False the connected flag is False.
C9_FailedLeavesDisconnected == fcResult = "false" => ~connected

\* C10: find_and_connect scans and connects at most max_attempts times, and
\* every call of it returns.
C10_BoundedAttempts ==
    /\ [](scans <= fcMax /\ connects <= fcMax)
    /\ [](InFc => <>(~InFc))

\* find_and_connect gave up after three passes that each scanned and connected
C10_Witness ==
    /\ fcResult = "false" /\ fcMax = 3 /\ scans = 3 /\ connects = 3
    /\ Len(fcWaits) = 2

\* C4: with MAX_RETRIES = N >= 1 and every attempt failing,
\* retry_with_backoff invokes the read exactly N times and then raises the
\* exception of the N-th attempt; it raises in no other case.
C4_ExactlyNAttempts ==
    /\ (maxRetries >= 1 /\ outcome = "raised")
          => /\ calls = maxRetries /\ Len(excs) = maxRetries
             /\ raised = excs[maxRetries]
    /\ (maxRetries >= 1 /\ rpc = "done" /\ Len(excs) = calls)
          => outcome = "raised"
    /\ maxRetries >= 1 => calls <= maxRetries

\* three attempts failed in three different ways and the last error came out
C4_Witness ==
    /\ outcome = "raised" /\ maxRetries = 3
    /\ excs[1].kind = "ConnectError" /\ excs[2].kind = "WriteError"
    /\ excs[3].kind = "TimeoutError" /\ raised.at = 3

\* C5: when an attempt of the live read succeeds after earlier attempts
\* failed, every attempt opened its own connection, the command was written
\* on the connection of the successful attempt and the reading returned
\* comes from that connection; the caller gets the reading and no error,
\* and no attempt follows the success.
C5_RetryTransparent ==
    outcome = "returned"
       => /\ rpc = "done" /\ raised = NoExc
          /\ calls = Len(excs) + 1 /\ lconns = calls
          /\ lwritten /\ lwrites >= 1
          /\ result.voltage # 0 /\ result.temperature # 0
          /\ result.conn = lconns

\* the third attempt succeeded after a failed write and a timeout
C5_Witness ==
    /\ outcome = "returned" /\ Len(excs) = 2 /\ calls = 3
    /\ excs[1].kind = "WriteError" /\ excs[2].kind = "TimeoutError"
    /\ lwrites = 2

\* C6: the k-th wait of retry_with_backoff (k = 0, 1, ...) lasts
\* RETRY_DELAY_BASE * 2^k, and there is one wait per failed attempt other
\* than the last of the N: none after the final failure, none after a
\* success.
C6_BackoffDelays ==
    /\ Len(delays) > 0 => delays[1] = RETRY_DELAY_BASE
    /\ \A k \in 1..(Len(delays) - 1) : delays[k + 1] = 2 * delays[k]
    /\ Len(delays) = IF maxRetries < 1 THEN 0
                     ELSE IF Len(excs) < maxRetries THEN Len(excs)
                     ELSE maxRetries - 1

\* four attempts failed: waits of 1, 2 and 4 and none after the last
C6_Witness ==
    /\ rpc = "done" /\ outcome = "raised" /\ maxRetries = 4
    /\ delays = << 1, 2, 4 >>

\* C7: whenever a command is written, the notification callback is already
\* registered on the connection (live read and history clients).
C7_SubscribedBeforeWrite ==
    [][/\ lwrites' # lwrites => lsub
       /\ received' # received => subscribed]_vars

\* C11: the waits of find_and_connect follow one exponential backoff: the
\* wait after failed attempt k, whatever the branch that slept, is
\* base * 2^k for one base.
C11_ExponentialBackoff ==
    \A i, j \in 1..Len(fcWaits) :
        fcWaits[i].delay * (2 ^ fcWaits[j].attempt)
            = fcWaits[j].delay * (2 ^ fcWaits[i].attempt)

\* C12: disconnect() never raises, whatever the state of the client (never
\* connected, connected, link already lost, unsubscribe failing), and a
\* second call right after the first asks for no link operation and leaves
\* the client as the first call left it.
C12_DisconnectSafe ==
    /\ ~discRaised
    /\ (pc = "closed" /\ discCalls = 2) => (discOps = 0 /\ linkVars = discSnap)

\* C13: an attempt of the live read ends with TimeoutError only when the
\* voltage or the temperature is still missing at the end of the wait; with
\* both received by then it returns the reading.
C13_TimeoutOnlyWhenMissing ==
    (lastExc.kind = "TimeoutError" /\ lastExc.at = calls)
        => (bm6data.voltage = 0 \/ bm6data.temperature = 0)

\* C14: no client object is made for, and no connection is opened to, an
\* address that does not match the MAC pattern: the validation comes before
\* every connect of the live read and of the history clients.
C14_ValidatedBeforeConnect ==
    (clientObj \/ connects > 0 \/ lconns > 0) => addrValid

\* C19: the list a history retrieval returns is ordered by timestamp,
\* newest first: every reading is at least as new as the one after it.
C19_NewestFirst ==
    \A k \in 1..(Len(unique_readings) - 1) :
        unique_readings[k].timestamp >= unique_readings[k + 1].timestamp

\* a complete retrieval returned two readings of different age, the newer
\* one collected last
C19_Witness ==
    /\ hpc = "done" /\ hclient = "complete" /\ Len(unique_readings) = 2
    /\ unique_readings[1].timestamp > unique_readings[2].timestamp
    /\ unique_readings[1].obs > unique_readings[2].obs

\* C15: the returned history list holds no two readings whose voltages
\* differ by less than 0.01 V and whose timestamps are 30 minutes or less
\* apart (1800 s included).
C15_NoNearDuplicates ==
    hpc = "done" =>
        \A j, k \in 1..Len(unique_readings) :
            (j # k /\ VoltClose(unique_readings[j].voltage,
                                unique_readings[k].voltage))
                => Abs(unique_readings[j].timestamp
                         - unique_readings[k].timestamp) > 1800

ConfidenceRank(r) == IF r.confidence = "high" THEN 2 ELSE 1

\* C16: when the final pass drops a reading as a duplicate of one it keeps,
\* the kept reading has the higher confidence, or the same confidence and
\* was observed earlier.
C16_BestDuplicateKept ==
    hpc = "done" =>
        \A j \in 1..Len(all_readings), k \in 1..Len(unique_readings) :
            LET d == all_readings[j]
                u == unique_readings[k]
            IN  (/\ \A n \in 1..Len(unique_readings) : unique_readings[n] # d
                 /\ SameReading(hclient, u, d))
                    => \/ ConfidenceRank(u) > ConfidenceRank(d)
                       \/ /\ ConfidenceRank(u) = ConfidenceRank(d)
                          /\ u.obs < d.obs

\* C17: the sort-and-deduplicate pass is idempotent: run on the list it
\* returned, it returns that list again.
C17_PassIdempotent ==
    hpc = "done" => FinalPass(hclient, unique_readings) = unique_readings

\* the conservative pass got four readings, dropped two of them as
\* duplicates and returned the other two
C17_Witness ==
    /\ hpc = "done" /\ hclient = "conservative"
    /\ Len(all_readings) = 4 /\ Len(unique_readings) = 2
    /\ unique_readings[1].voltage # unique_readings[2].voltage

\* C18: when the device delivered the same response block twice during a
\* conservative retrieval (in one window or for two commands), the returned
\* list holds exactly one reading for each voltage candidate of the block.
C18_OneReadingPerCandidate ==
    (hpc = "done" /\ hclient = "conservative") =>
        \A m, n \in 1..Len(hlog) :
            (m # n /\ hlog[m].block = hlog[n].block) =>
                \A i \in 1..Len(hlog[m].block.cands) :
                    Cardinality({k \in 1..Len(unique_readings) :
                        /\ unique_readings[k].raw_data = hlog[m].block
                        /\ unique_readings[k].voltage = hlog[m].block.cands[i]})
                      = 1

\* C20: get_all_history_records returns the readings collected so far
\* whatever single command fails, the counter-positioning command of the
\* sequential phase included: with readings collected, no failed command
\* ends the retrieval with an exception in place of the list.
C20_PartialResultsReturned ==
    (hclient = "complete" /\ all_readings # << >>) => hpc # "raised"

\* C21: get_history_summary never raises on an empty history: it returns a
\* summary with total_records = 0 and an error note, and it computes the
\* voltage statistics only when there is at least one record.
C21_EmptySummary ==
    /\ hpc # "summary_raised"
    /\ hpc = "summarized" =>
          /\ unique_readings = << >> =>
                (summary.total_records = 0 /\ summary.error
                 /\ summary.stats = << >>)
          /\ summary.stats # << >> =>
                (Len(unique_readings) >= 1 /\ ~summary.error
                 /\ summary.total_records = Len(unique_readings))

\* the complete client summarized a retrieval that found no reading
C21_Witness ==
    /\ hpc = "summarized" /\ hclient = "complete"
    /\ unique_readings = << >> /\ summary.total_records = 0 /\ summary.error


\* ---- C22
\* The candidates the voltage scan yields for big-endian windows: the list
\* the conservative client's function returns, and the list the scan loop
\* of the complete client builds.
ScanYield ==
    LET list == IF cop = "extract_conservative"
                   THEN cout[1].unique_voltages ELSE cout[1].voltages
    IN  {list[j] : j \in {i \in 1..Len(list) : list[i].endian = "big"}}

C23_TemperatureSign ==
    (cop = "decode_live" /\ cout # << >> /\ cout[1].parsed) =>
        LET flag == cin[1][4]
            m == cin[1][5]
        IN  /\ flag = 1 => cout[1].temperature = 0 - m
            /\ flag = 0 => cout[1].temperature = m

\* flag 0x01 with magnitude 0x05 decoded to -5
C23_Witness ==
    /\ cop = "decode_live" /\ cout # << >> /\ cout[1].parsed
    /\ cin[1][4] = 1 /\ cin[1][5] = 5 /\ cout[1].temperature = 0 - 5

\* ---- C24
\* The claim as stated: for the plaintext d1550700640c00000000000000000e64
\* the decoder extracts temperature 12 and state-of-charge 0, the voltage
\* being the 3-hex-digit field at its offset (digits 15..17) over 100.
C24_FixtureAsStated ==
    (cop = "decode_live" /\ cout # << >>
     /\ cin[1] = << 209, 85, 7, 0, 100, 12, 0, 0, 0, 0, 0, 0, 0, 0, 14, 100 >>) =>
        /\ cout[1].parsed
        /\ cout[1].temperature = 12 /\ cout[1].soc = 0
        /\ cout[1].voltage = IntHex(Slice(Hex(cin[1]), 15, 18))

\* C24 (amended): for the plaintext d1550700640c00000000000000000e64 the
\* decoder extracts temperature 100 (0x64, the byte that follows the
\* temperature flag) and state-of-charge 0, and the voltage field (digits
\* 15..17, "000") gives 0.00 V.
C24_FixtureDecoded ==
    (cop = "decode_live" /\ cout # << >>
     /\ cin[1] = << 209, 85, 7, 0, 100, 12, 0, 0, 0, 0, 0, 0, 0, 0, 14, 100 >>) =>
        /\ cout[1].parsed
        /\ cout[1].temperature = 100 /\ cout[1].soc = 0
        /\ cout[1].voltage = 0

\* the fixture block has been decoded
C24_Witness ==
    /\ cop = "decode_live" /\ cout # << >>
    /\ cin[1] = << 209, 85, 7, 0, 100, 12, 0, 0, 0, 0, 0, 0, 0, 0, 14, 100 >>
    /\ cout[1].parsed /\ cout[1].temperature = 100


C26_BadPayloadDropped ==
    [][\A c \in 1..MaxCmds :
          NotifyBad(c) => (cbRaised' = cbRaised /\ responses' = responses)]_vars


\* ---- C27
\* C27: every command the history clients and probers construct is exactly
\* one 16-byte block (32 hex digits), for every opcode and every parameter
\* value of every parameter strategy, and so is encrypted and written.
C27_CommandIsOneBlock ==
    (cop = "build_command" /\ cout # << >>) =>
        (Len(cout[1].command) = 32 /\ cout[1].written)


\* ---- C29
\* C29: the robust client's connected flag becomes True, and
\* find_and_connect returns True, only when within one pass of the loop,
\* in this order, the device was seen in the scan, the link was
\* established, the FFF0 service was found and the subscription succeeded.
C29_ConnectedAfterAllStages ==
    [][((connected' /\ ~connected) \/ (fcResult' = "true" /\ fcResult # "true"))
        => (/\ fcStages' = << "scan", "connect", "services", "notify" >>
            /\ connected' /\ fcResult' = "true"
            /\ link' /\ subscribed')]_vars

\* find_and_connect returned True in its second or a later pass
C29_Witness ==
    /\ kind = "robust" /\ connected /\ fcResult = "true" /\ fcAttempt >= 1
    /\ fcStages = << "scan", "connect", "services", "notify" >>

\* ---- C30
\* C30: when _send_command_safe finds the link down and the reconnect
\* succeeds, the command is written exactly once, on the new connection and
\* right after the buffer reset, and what its window collected is returned;
\* when the reconnect fails no command is written and [] is returned.
C30_ReconnectThenWriteOnce ==
    [][(kind = "robust" /\ fcCaller = "send") =>
         /\ (pc \in {"fc_scan", "fc_notfound", "fc_connect", "fc_check",
                     "fc_nosvc", "fc_notify", "fc_except", "fc_backoff"})
               => writes[cmd] = 0
         /\ (fcResult' = "true" /\ fcResult # "true")
               => (/\ writes'[cmd] = 1 /\ pc' = "write" /\ cmd' = cmd
                   /\ responses' = << >> /\ winlog' = << >>
                   /\ link' /\ subscribed')
         /\ (fcResult' = "false" /\ fcResult # "false")
               => (/\ writes'[cmd] = 0 /\ pc' = "idle"
                   /\ retKind' = "list" /\ ret' = << >> /\ retCmd' = cmd)
         /\ (fcResult = "true" /\ pc \in {"write", "sleep"})
               => (/\ writes'[cmd] = 1
                   /\ (pc = "sleep" /\ pc' = "idle")
                         => (retKind' = "list" /\ retCmd' = cmd
                             /\ ret' = winlog))]_vars

\* a command sent after a reconnect has returned the reply of its window
C30_Witness ==
    /\ kind = "robust" /\ fcCaller = "send" /\ fcResult = "true"
    /\ pc = "idle" /\ retCmd = cmd /\ retKind = "list" /\ failure = "none"
    /\ writes[cmd] = 1 /\ Len(ret) >= 1 /\ ret[1].cmd = cmd

\* ---- C31
\* C31: after disconnect() has returned on a robust client whose link was
\* up when it was called, the link is down or the close operation was
\* invoked on it (the second link operation of the call), also when the
\* unsubscribe failed; the client is not flagged disconnected over a link
\* that is open and was never asked to close.
C31_ClosedAfterDisconnect ==
    (kind = "robust" /\ pc = "closed" /\ discCalls >= 1 /\ discSnap[1]
        /\ discSnap[3] /\ ~connected)
       => (~link \/ discOps = 2)


\* ---- C32
\* C32: on every exit path of a live read that started the notification
\* subscription (success, data timeout, communication error), stop_notify
\* is called on the connection before the connection is closed.
C32_StopBeforeTeardown ==
    \A i \in 1..Len(trace) : \A k \in 1..(i - 1) :
       (/\ trace[i] = "disconnect" /\ trace[k] = "start_notify"
        /\ \A j \in (k + 1)..(i - 1) : trace[j] # "disconnect")
          => \E m \in (k + 1)..(i - 1) : trace[m] = "stop_notify"


\* ---- C33
\* C33: parse_timestamp_from_data applies its rules in strict priority: when
\* some 4-byte window of the block holds, big- or little-endian, a value
\* from 1600000000 up to the clock plus one day, the result is such a value
\* (that of the first such window, big-endian first); otherwise, when some
\* 2-byte window holds a value below 8760, the result is the clock minus
\* that many hours for the first such window; and the result is the clock
\* minus record_index times 15 minutes exactly when no window matches
\* either rule.
C33_TimestampPriority ==
    (cop = "parse_timestamp" /\ cout # << >>) =>
       LET b == cin[1].bytes
           now == cin[1].now
           BE(k) == << b[k], b[k + 1], b[k + 2], b[k + 3] >>
           LE(k) == << b[k + 3], b[k + 2], b[k + 1], b[k] >>
           Val(w) == ((w[1] * 256 + w[2]) * 256 + w[3]) * 256 + w[4]
           Ok(w) == w[1] < 128 /\ 1600000000 <= Val(w)
                       /\ Val(w) - 86400 <= now
           epochs == {k \in 1..(Len(b) - 3) : Ok(BE(k)) \/ Ok(LE(k))}
           hours == {k \in 1..(Len(b) - 1) : b[k] * 256 + b[k + 1] < 8760}
           First(S) == CHOOSE k \in S : \A j \in S : k <= j
       IN  IF epochs # {}
              THEN LET k == First(epochs)
                   IN  cout[1] = IF Ok(BE(k)) THEN Val(BE(k)) ELSE Val(LE(k))
           ELSE IF hours # {}
              THEN LET k == First(hours)
                   IN  cout[1] = now - 3600 * (b[k] * 256 + b[k + 1])
           ELSE cout[1] = now - 900 * cin[1].record_index

\* a block whose first two bytes read as an hours offset and whose four
\* bytes hold an accepted little-endian time: the time was returned
C33_Witness ==
    /\ cop = "parse_timestamp" /\ cout # << >>
    /\ cin[1].bytes = << 0, 16, 94, 95 >>
    /\ cout[1] = 1600000000


\* ---- C34
\* C34: extract_voltages_from_response of the complete client returns at
\* most one candidate per byte position, and the candidate returned for a
\* position has the highest confidence among the candidates the scan found
\* at that position (a 'high' one when either byte order gave 'high').
C34_BestPerPosition ==
    (cop = "extract_complete" /\ cout # << >>) =>
       LET found == cout[1].voltages
           returned == cout[1].unique_voltages
       IN  /\ \A i, j \in 1..Len(returned) :
                 returned[i].position = returned[j].position => i = j
           /\ \A i \in 1..Len(returned) : \A m \in 1..Len(found) :
                 (found[m].position = returned[i].position
                    /\ found[m].confidence = "high")
                    => returned[i].confidence = "high"


\* ---- C35
\* C35: in the sequential phase of get_all_history_records at most one
\* reading is recorded per counter position: all_readings never holds two
\* readings of the sequential phase with the same record_index.
C35_OneReadingPerPosition ==
    hclient = "complete" =>
       \A m, n \in 1..Len(all_readings) :
          (/\ all_readings[m].source_command.cmd = "seq"
           /\ all_readings[n].source_command.cmd = "seq"
           /\ all_readings[m].record_index = all_readings[n].record_index)
             => m = n


\* ---- C36
\* C36: the list get_all_history_records(max_records) returns never holds
\* more than max_records readings, whatever the device answered.
C36_AtMostMaxRecords ==
    (hclient = "complete" /\ hpc = "done") => Len(unique_readings) <= max_records


\* ---- C37
\* C37: the list a command returned is a snapshot: no step that changes
\* self.responses (a notification delivered after the return, the buffer
\* reset of a later command) changes the list the caller was given.
C37_ReturnedListIsSnapshot ==
    [][(retCmd >= 1 /\ responses' # responses) => ret' = ret]_vars

\* a later command has reset the buffer and taken in a reply while the
\* caller still holds the non-empty list of the command before it
C37_Witness ==
    /\ kind \in {"complete", "robust"}
    /\ retCmd >= 1 /\ cmd = retCmd + 1 /\ pc = "sleep"
    /\ Len(ret) >= 1 /\ ret[1].cmd = retCmd
    /\ Len(responses) >= 1 /\ responses[1].cmd = cmd


\* ---- C38
\* C38: for every configured retry count, 0 and negative counts included,
\* retry_with_backoff ends by returning what the wrapped read returned or by
\* raising an exception that an invocation of the wrapped read raised.
C38_ResultOrOwnException ==
    /\ outcome = "raised" => \E i \in 1..Len(excs) : raised = excs[i]
    /\ outcome = "returned" => (calls >= 1 /\ result = bm6data)


\* ---- C39
\* C39: whenever a single live read returns normally, voltage, temperature
\* and state of charge are all present and were decoded from one and the
\* same notification block; and a notified block that does not start with
\* the live-reading prefix changes none of the three.
C39_CompleteReadingFromOneBlock ==
    [][/\ (outcome' = "returned" /\ outcome # "returned")
            => (/\ result'.voltage # 0 /\ result'.temperature # 0
                /\ result'.soc # 0
                /\ result'.voltage = result'.temperature
                /\ result'.voltage = result'.soc)
       /\ \A block \in LiveBlocks :
             LNotify(block, FALSE) => bm6data' = bm6data]_vars

\* a read returned voltage, state of charge and temperature of block 2
C39_Witness ==
    /\ outcome = "returned" /\ calls = 1
    /\ result.voltage = 2 /\ result.soc = 2 /\ result.temperature = 2


=============================================================================
